---------------------------- MODULE Spec2Model ----------------------------
(***************************************************************************)
(* Ledger synchronisation and reconciliation of sr-timesheet.              *)
(*                                                                         *)
(* The "timesheet" edge function (three variants of it are in the          *)
(* repository) records one entry per request in a per-user Google          *)
(* spreadsheet with one sheet per month; the "timesheet-monitor" edge      *)
(* function sweeps the roster once a day.  Requests are independent        *)
(* invocations that share nothing but the Drive/Sheets store, so every     *)
(* await of a handler is one step of a process and the steps of different  *)
(* requests interleave.                                                    *)
(*                                                                         *)
(* Conventions                                                             *)
(*   - an instant is a number of minutes since the Unix epoch (the code    *)
(*     uses milliseconds; nothing in it looks below a minute);             *)
(*   - a date string "YYYY-MM-DD" is the tuple <<y, m, d>>, a missing or   *)
(*     empty one is << >>;                                                 *)
(*   - a text that the code parses as a number is a tuple of characters;   *)
(*   - hours are counted in half hours (8 h = 16), values that IEEE        *)
(*     doubles add without rounding;                                       *)
(*   - the runtime's local time zone is UTC (Supabase edge runtime), which *)
(*     is what Date.setHours, getMonth and getDay use.                     *)
(***************************************************************************)
EXTENDS Integers, Sequences, FiniteSets, TLC

(***************************************************************************)
(* Program constants                                                       *)
(***************************************************************************)
MONTHS ==
  << "January", "February", "March", "April", "May", "June",
     "July", "August", "September", "October", "November", "December" >>

\* 5.5 * 60 * 60 * 1000 ms, in minutes
istOffset == 330

\* minutes of a day (Date arithmetic)
MinutesPerDay == 1440

\* the threshold of checkTimesheets, 8 hours, in half hours
FullDay == 16

HeaderRow == << <<"D", "a", "t", "e">>, "Project", "Task", <<"H", "o", "u", "r", "s">> >>

(***************************************************************************)
(* Bounds of the model                                                     *)
(***************************************************************************)
\* requests the timesheet function receives in one behaviour
MaxRequests == 2

\* store or network calls that fail in one behaviour
MaxFailures == 1

\* data rows of a partition in the reconciler's initial stores
MaxRows == 3

Procs == {1, 2}

Users == {"ann@sr.io", "bob@sr.io"}

\* the users who send requests; the other one has a ledger from the start
Requesters == {"ann@sr.io"}

Variants == {1, 2, 3}

\* GOOGLE_DRIVE_FOLDER_ID: the id of a folder, not set, or the id of
\* something that is no folder.  The third variant does not start without it.
ParentConfigs == {"folder", "unset", "notfolder"}

(***************************************************************************)
(* Dates: what new Date("YYYY-MM-DD"), getMonth, getDay and toISOString do *)
(***************************************************************************)
\* new Date("YYYY-MM-DD").getTime(), in days: UTC midnight of the civil date
DaysFromCivil(date) ==
  LET y   == IF date[2] <= 2 THEN date[1] - 1 ELSE date[1]
      era == y \div 400
      yoe == y - era * 400
      mp  == (date[2] + 9) % 12
      doy == (153 * mp + 2) \div 5 + date[3] - 1
      doe == yoe * 365 + yoe \div 4 - yoe \div 100 + doy
  IN era * 146097 + doe - 719468

\* the civil date <<y, m, d>> of a day number: toISOString().split('T')[0]
CivilFromDays(n) ==
  LET z   == n + 719468
      era == z \div 146097
      doe == z - era * 146097
      yoe == (doe - doe \div 1460 + doe \div 36524 - doe \div 146096) \div 365
      doy == doe - (365 * yoe + yoe \div 4 - yoe \div 100)
      mp  == (5 * doy + 2) \div 153
      d   == doy - (153 * mp + 2) \div 5 + 1
      m   == IF mp < 10 THEN mp + 3 ELSE mp - 9
      y   == yoe + era * 400 + (IF m <= 2 THEN 1 ELSE 0)
  IN << y, m, d >>

\* new Date(date).getTime(), in minutes
ParseDate(date) == DaysFromCivil(date) * MinutesPerDay

\* d.setHours(0, 0, 0, 0) in the runtime's zone
SetHoursZero(t) == (t \div MinutesPerDay) * MinutesPerDay

\* new Date(t).toISOString().split('T')[0]
IsoDate(t) == CivilFromDays(t \div MinutesPerDay)

\* new Date(date).getMonth(), zero-based
GetMonth(date) == CivilFromDays(ParseDate(date) \div MinutesPerDay)[2] - 1

\* new Date(t).getDay(): 0 is Sunday
GetDay(t) == ((t \div MinutesPerDay) + 4) % 7

\* MONTHS[new Date(date).getMonth()]
MonthName(date) == MONTHS[GetMonth(date) + 1]

\* the instant of a civil date and a minute of the day
At(date, minute) == ParseDate(date) + minute

(***************************************************************************)
(* isBackdated of the timesheet handler                                    *)
(***************************************************************************)
IsBackdatedNoOffset(date, now) ==
  SetHoursZero(ParseDate(date) + istOffset) < SetHoursZero(now)

IsBackdated(date, now) ==
  SetHoursZero(ParseDate(date) + istOffset) < SetHoursZero(now + istOffset)

(***************************************************************************)
(* Numbers in texts: parseFloat                                            *)
(***************************************************************************)
Digits == << "0", "1", "2", "3", "4", "5", "6", "7", "8", "9" >>

IsDigit(c) == \E k \in 1..10 : Digits[k] = c

DigitVal(c) == (CHOOSE k \in 1..10 : Digits[k] = c) - 1

\* the length of the longest prefix of digits of s
RECURSIVE DigitPrefix(_)
DigitPrefix(s) ==
  IF s = << >> \/ ~IsDigit(Head(s)) THEN 0 ELSE 1 + DigitPrefix(Tail(s))

\* the number written by the digits s, in half hours
RECURSIVE IntValue(_)
IntValue(s) ==
  IF s = << >> THEN 0
  ELSE 10 * IntValue(SubSeq(s, 1, Len(s) - 1)) + 2 * DigitVal(s[Len(s)])

\* parseFloat(text): an optional sign, digits, an optional fraction, read as
\* far as the text is a number; NaN when no digit was read.  The value is in
\* half hours and the fraction is read to its first digit (.0 or .5).
ParseFloat(s) ==
  LET neg  == s # << >> /\ Head(s) = "-"
      body == IF neg THEN Tail(s) ELSE s
      n    == DigitPrefix(body)
      rest == SubSeq(body, n + 1, Len(body))
      frac == IF rest # << >> /\ Head(rest) = "." THEN Tail(rest) ELSE << >>
      f    == DigitPrefix(frac)
      mag  == IntValue(SubSeq(body, 1, n))
                + (IF f > 0 /\ DigitVal(frac[1]) >= 5 THEN 1 ELSE 0)
  IN IF n = 0 /\ f = 0 THEN [nan |-> TRUE, v |-> 0]
     ELSE [nan |-> FALSE, v |-> IF neg THEN 0 - mag ELSE mag]

(***************************************************************************)
(* The request body of the timesheet function                              *)
(***************************************************************************)
\* a JSON value of the hours field: absent, a number or a string, with its text
NoHours == [t |-> "undef", s |-> << >>]

Str(s) == [t |-> "str", s |-> s]

Num(s) == [t |-> "num", s |-> s]

Dates == { <<2024, 6, 28>>, <<2024, 7, 1>> }

\* the instants at which requests arrive: 2024-07-01 10:00 UTC
NowSet == { At(<<2024, 7, 1>>, 600) }

ValidBodies ==
  { [date |-> d, hours |-> h, project |-> "P1", description |-> "T1",
     userEmail |-> u, userName |-> ""] :
       d \in Dates, h \in {Str(<<"8">>)}, u \in Requesters }

BaseBody ==
  [date |-> <<2024, 7, 1>>, hours |-> Str(<<"8">>), project |-> "P1",
   description |-> "T1", userEmail |-> "ann@sr.io", userName |-> "Ann"]

\* one field missing or empty, or hours zero or negative
EdgeBodies ==
  { [BaseBody EXCEPT !.date = << >>],
    [BaseBody EXCEPT !.project = ""],
    [BaseBody EXCEPT !.description = ""],
    [BaseBody EXCEPT !.userEmail = ""],
    [BaseBody EXCEPT !.hours = NoHours],
    [BaseBody EXCEPT !.hours = Str(<< >>)],
    [BaseBody EXCEPT !.hours = Num(<<"0">>)],
    [BaseBody EXCEPT !.hours = Num(<<"-", "2">>)] }

Bodies == ValidBodies \cup EdgeBodies

\* !hours of JavaScript: undefined, 0 and "" are falsy
Falsy(h) ==
  \/ h.t = "undef"
  \/ h.t = "num" /\ ParseFloat(h.s).v = 0
  \/ h.t = "str" /\ h.s = << >>

\* if (!date || !hours || !project || !description || !userEmail)
MissingFields(b) ==
  \/ b.date = << >>
  \/ Falsy(b.hours)
  \/ b.project = ""
  \/ b.description = ""
  \/ b.userEmail = ""

\* a ledger as provisioning leaves it, with one entry in its July sheet
BobLedger ==
  [name |-> "bob@sr.io", inFolder |-> TRUE,
   sheets |-> [k \in 1..Len(MONTHS) |->
                 [title |-> MONTHS[k],
                  rows |-> IF k = 7
                           THEN << HeaderRow, << <<2024, 7, 1>>, "P2", "T2", <<"8">> >> >>
                           ELSE << HeaderRow >>]]]

\* the roster store: the pages of supabase.auth.admin.listUsers
RosterPages ==
  << << [email |-> "ann@sr.io", display_name |-> "Ann"] >>,
     << [email |-> "bob@sr.io", display_name |-> ""] >> >>

(***************************************************************************)
(* State                                                                   *)
(***************************************************************************)
VARIABLES
  files,     \* the Drive store: the spreadsheets, in creation order
  folders,   \* folders named "Timesheet Folder" that createFolder has made
  req,       \* the invocations of the timesheet function, one per slot
  started,   \* requests received so far
  failures,  \* store and network calls that have failed so far
  clock,     \* the latest instant a request has read from the system clock
  acked,     \* history: the rows whose request was answered 200
  deployed,  \* the variant of the timesheet function that is deployed
  recon,     \* the invocation of the timesheet-monitor function
  roster,    \* the roster store: the pages that listUsers serves
  parent,    \* what GOOGLE_DRIVE_FOLDER_ID denotes: a folder, nothing, a file
  fnIn,      \* the input of the function under check (pure-function specs)
  fnOut,     \* its result
  dash,      \* the Dashboard component: its state and its pending submit
  login      \* the Login component: its state, its timer, its pending signIn

vars == << files, folders, req, started, failures, clock, acked, deployed, recon, roster, parent, fnIn, fnOut, dash, login >>

\* a slot with no request in it
Idle ==
  [pc |-> "idle", variant |-> 1, body |-> [BaseBody EXCEPT !.userName = ""],
   firstTask |-> "", now |-> 0, backdated |-> FALSE, spreadsheetId |-> 0,
   i |-> 0, rowIdx |-> 0, result |-> "none", pre |-> {}, located |-> FALSE,
   creates |-> 0, storeCalls |-> 0, appends |-> 0, alertCalls |-> 0,
   posts |-> << >>, postOutcome |-> "none"]

NoInput == [f |-> "none"]

\* the monitor before it is invoked
ReconIdle ==
  [pc |-> "idle", now |-> 0, dateStr |-> << >>, users |-> << >>, page |-> 1,
   k |-> 1, spreadsheetId |-> 0, reports |-> << >>, log |-> << >>,
   posts |-> 0, calls |-> 0, readFailures |-> {}, notifyCalls |-> 0,
   outcome |-> "none", message |-> << >>]

\* the instants at which the Dashboard reads the clock: the last and the
\* first half hour (UTC) around the midnight between September and October
DashClock == << At(<<2024, 9, 30>>, 1410), At(<<2024, 10, 1>>, 30) >>

\* the fields that appear in the form carry, as their text, a number unique
\* in the form: what the user types into them with updateProject and
\* updateTask
NewTask(id) == [description |-> id, hours |-> <<"8">>]

NewProject(id) == [name |-> id, tasks |-> << NewTask(id + 1) >>]

\* useState(...) of the Dashboard mounted at instant n; indices count from 1
\* (0: undefined); the fields sent, responses, formAtSubmit, selected,
\* removed and threw are history
Mounted(n) ==
  [now |-> n,
   date |-> IsoDate(n),
   projects |-> << NewProject(1) >>,
   nextId |-> 3,
   submitting |-> FALSE,
   error |-> "",
   successMessage |-> "",
   deleteConfirmation |-> [type |-> "project", projectIndex |-> 1,
                           taskIndex |-> 0, show |-> FALSE],
   pc |-> "idle",
   entries |-> << >>,
   i |-> 0,
   submits |-> 0,
   sent |-> << >>,
   responses |-> << >>,
   formAtSubmit |-> << >>,
   selected |-> << >>,
   removed |-> FALSE,
   threw |-> FALSE]

DashIdle == Mounted(DashClock[1])

\* useState(...) of the Login form; timer: the interval of the effect is
\* set; signIns, calls and ticks are history
LoginIdle ==
  [cooldown |-> 0, loading |-> FALSE, message |-> "", pc |-> "idle",
   timer |-> FALSE, signIns |-> 0, calls |-> 0, ticks |-> 0]

Init ==
  /\ files = << BobLedger >>
  /\ folders = 0
  /\ req = [p \in Procs |-> Idle]
  /\ started = 0
  /\ failures = 0
  /\ clock = 0
  /\ acked = {}
  /\ deployed \in Variants
  /\ recon = ReconIdle
  /\ roster = RosterPages
  /\ parent \in ParentConfigs
  /\ deployed = 3 => parent # "unset"
  /\ fnIn = NoInput
  /\ fnOut = NoInput
  /\ dash = DashIdle
  /\ login = LoginIdle

(***************************************************************************)
(* The store                                                               *)
(***************************************************************************)
\* drive.files.list with q = name = 'Timesheet - <email>' and '<folderId>'
\* in parents and mimeType spreadsheet: the ids (positions in files) of the
\* matching files
LedgersComplete(email) ==
  { id \in 1..Len(files) :
      /\ files[id].name = email /\ files[id].inFolder
      /\ Len(files[id].sheets) = Len(MONTHS) }

Ledgers(email) ==
  { id \in 1..Len(files) : files[id].name = email /\ files[id].inFolder }

\* the monitor's drive.files.list with q = name = 'Timesheet - <email>' and
\* mimeType spreadsheet: any spreadsheet of that name the account can see
LedgersByName(email) == { id \in 1..Len(files) : files[id].name = email }

\* the position of the sheet called title in a spreadsheet, 0 when it has none
SheetIndex(file, title) ==
  IF \E k \in 1..Len(file.sheets) : file.sheets[k].title = title
  THEN CHOOSE k \in 1..Len(file.sheets) : file.sheets[k].title = title
  ELSE 0

\* drive.files.create of a spreadsheet: it comes with one default sheet, sheetId 0
NewSpreadsheet(email) ==
  [name |-> email, inFolder |-> TRUE,
   sheets |-> << [title |-> "Sheet1", rows |-> << >>] >>]

\* values.update of <title>!A1:D1: row 1 is set, whatever it held
UpdateRow1(rows, row) ==
  IF rows = << >> THEN << row >> ELSE [rows EXCEPT ![1] = row]

\* values.append to <title>!A:D: the row goes below the last row of the sheet
AppendRow(rows, row) == Append(rows, row)

(***************************************************************************)
(* The timesheet function, one action per await                            *)
(***************************************************************************)
\* the pc after the request body has passed validation
AfterValidation(v, backdated) ==
  IF v = 3 THEN "folder"
  ELSE IF v = 1 /\ backdated THEN "alert"
  ELSE "locate"

\* the second variant's check of its environment variables in the handler
EnvVarMissing(v) == v = 2 /\ parent = "unset"

\* Deno.serve handler up to its first await on a service: req.json(), the
\* validation and the date comparison
Receive(p) ==
  /\ req[p].pc = "idle"
  /\ \A q \in Procs : q < p => req[q].pc # "idle"
  /\ started < MaxRequests
  /\ \E v \in {deployed}, b \in Bodies, n \in NowSet, h \in {"P1", "P0"} :
       /\ n >= clock
       /\ v # 2 => h = "P1"
       /\ clock' = n
       /\ LET bd == IF v = 3 \/ MissingFields(b) THEN FALSE
                    ELSE IsBackdated(b.date, n)
              r  == [Idle EXCEPT !.variant = v, !.body = b, !.now = n,
                                 !.firstTask = h, !.backdated = bd]
          IN req' = [req EXCEPT ![p] =
                       IF MissingFields(b)
                       THEN [r EXCEPT !.pc = "done", !.result = "invalid"]
                       ELSE IF EnvVarMissing(v)
                       THEN [r EXCEPT !.pc = "done", !.result = "config"]
                       ELSE [r EXCEPT !.pc = AfterValidation(v, bd)]]
  /\ started' = started + 1
  /\ UNCHANGED << files, folders, failures, acked, deployed, recon, roster, parent, fnIn, fnOut, dash, login >>

\* the row that the handler appends: [date, project, description, hours]
EntryRowHoursFirst(b) == << b.hours.s, b.project, b.description, b.date >>

EntryRow(b) == << b.date, b.project, b.description, b.hours.s >>

\* the message of sendSlackAlert(userEmail, userName || userEmail, date),
\* built at instant n
AlertMessage(b, n) ==
  [userEmail |-> b.userEmail,
   userName |-> IF b.userName = "" THEN b.userEmail ELSE b.userName,
   date |-> b.date,
   currentDate |-> IsoDate(n)]

\* the 200 response of a request whose row is at rowIdx
Acknowledge(r) ==
  acked' = acked \cup
    { [id |-> r.spreadsheetId, title |-> MonthName(r.body.date),
       idx |-> r.rowIdx, row |-> EntryRow(r.body)] }

\* where the handler stands after sendSlackAlert, which catches its own
\* errors: the first variant goes on to the ledger, the second answers 200
AfterAlertRethrow(r, outcome) ==
  IF outcome \in {"nonok", "exception"} THEN [pc |-> "done", result |-> "error"]
  ELSE IF r.variant = 1 THEN [pc |-> "locate", result |-> r.result]
  ELSE [pc |-> "done", result |-> "ok"]

AfterAlert(r, outcome) ==
  IF r.variant = 1 THEN [pc |-> "locate", result |-> r.result]
  ELSE [pc |-> "done", result |-> "ok"]

\* sendSlackAlert: the webhook is not configured, or the post succeeds, is
\* answered non-ok, or throws; all of it is caught inside
SendSlackAlert(p) ==
  /\ req[p].pc = "alert"
  /\ \E outcome \in {"ok", "nonok", "exception", "nourl"}, n \in NowSet :
       /\ n >= clock
       /\ clock' = n
       /\ LET r    == req[p]
              next == AfterAlert(r, outcome)
              r2   == [r EXCEPT
                         !.pc = next.pc,
                         !.alertCalls = @ + 1,
                         !.postOutcome = outcome,
                         !.posts = IF outcome = "nourl" THEN @
                                   ELSE Append(@, AlertMessage(r.body, n)),
                         !.result = next.result]
          IN /\ req' = [req EXCEPT ![p] = r2]
             /\ IF r2.pc = "done" /\ r2.result = "ok"
                THEN Acknowledge(r2)
                ELSE UNCHANGED acked
  /\ UNCHANGED << files, folders, started, failures, deployed, recon, roster, parent, fnIn, fnOut, dash, login >>

\* createFolder of the third variant: a new folder on every call
CreateFolder(p) ==
  /\ req[p].pc = "folder"
  /\ folders' = folders + 1
  /\ req' = [req EXCEPT ![p].pc = "verify",
                        ![p].pre = Ledgers(req[p].body.userEmail),
                        ![p].creates = @ + 1,
                        ![p].storeCalls = @ + 1]
  /\ UNCHANGED << files, started, failures, clock, acked, deployed, recon, roster, parent, fnIn, fnOut, dash, login >>

\* verifyFolderAccess: lists the folders and reads the parent folder; throws
\* when the id is not that of a folder
VerifyFolderAccess(p) ==
  /\ req[p].pc = "verify"
  /\ req' = IF parent = "folder"
            THEN [req EXCEPT ![p].pc = "locate", ![p].storeCalls = @ + 1]
            ELSE [req EXCEPT ![p].pc = "done", ![p].result = "config",
                             ![p].storeCalls = @ + 1]
  /\ UNCHANGED << files, folders, started, failures, clock, acked, deployed, recon, roster, parent, fnIn, fnOut, dash, login >>

\* the search of findOrCreateSpreadsheet / getOrCreateEmployeeSpreadsheet,
\* after the check that the folder id is set; files[0] of a listing with
\* several matches is any of them, and nothing is in a parent that is no folder
ListFilesAlwaysCreate(p) ==
  /\ req[p].pc = "locate"
  /\ req' = [req EXCEPT ![p].pc = "create",
                        ![p].pre = Ledgers(req[p].body.userEmail),
                        ![p].storeCalls = @ + 1]
  /\ UNCHANGED << files, folders, started, failures, clock, acked, deployed, recon, roster, parent, fnIn, fnOut, dash, login >>

ListFiles(p) ==
  /\ req[p].pc = "locate"
  /\ LET r     == req[p]
         found == IF parent = "folder" THEN Ledgers(r.body.userEmail) ELSE {}
         pre   == IF r.variant = 3 THEN r.pre ELSE found
     IN IF parent = "unset"
        THEN req' = [req EXCEPT ![p].pc = "done", ![p].result = "config"]
        ELSE IF found # {}
        THEN \E id \in found :
               req' = [req EXCEPT ![p].pc = "append", ![p].spreadsheetId = id,
                                  ![p].located = TRUE, ![p].pre = pre,
                                  ![p].storeCalls = @ + 1]
        ELSE req' = [req EXCEPT ![p].pc = "create", ![p].pre = pre,
                                ![p].storeCalls = @ + 1]
  /\ UNCHANGED << files, folders, started, failures, clock, acked, deployed, recon, roster, parent, fnIn, fnOut, dash, login >>

\* drive.files.create of the spreadsheet; Drive refuses a parent that is
\* no folder
CreateFile(p) ==
  /\ req[p].pc = "create"
  /\ IF parent = "folder"
     THEN /\ files' = Append(files, NewSpreadsheet(req[p].body.userEmail))
          /\ req' = [req EXCEPT ![p].pc = "sheet",
                                ![p].spreadsheetId = Len(files) + 1,
                                ![p].i = 0, ![p].creates = @ + 1,
                                ![p].storeCalls = @ + 1]
     ELSE /\ files' = files
          /\ req' = [req EXCEPT ![p].pc = "done", ![p].result = "error",
                                ![p].storeCalls = @ + 1]
  /\ UNCHANGED << folders, started, failures, clock, acked, deployed, recon, roster, parent, fnIn, fnOut, dash, login >>

\* batchUpdate of iteration i: rename the default sheet, or add a sheet
InitSheet(p) ==
  /\ req[p].pc = "sheet"
  /\ LET r  == req[p]
         id == r.spreadsheetId
     IN /\ files' =
             IF r.i = 0
             THEN [files EXCEPT ![id].sheets[1].title = MONTHS[1]]
             ELSE [files EXCEPT ![id].sheets =
                     Append(@, [title |-> MONTHS[r.i + 1], rows |-> << >>])]
        /\ req' = [req EXCEPT ![p].pc = "header",
                              ![p].creates = IF r.i = 0 THEN @ ELSE @ + 1,
                              ![p].storeCalls = @ + 1]
  /\ UNCHANGED << folders, started, failures, clock, acked, deployed, recon, roster, parent, fnIn, fnOut, dash, login >>

\* values.update of MONTHS[i]!A1:D1 with the header, and i++
WriteHeaderSkipped(p) ==
  /\ req[p].pc = "header"
  /\ req' = [req EXCEPT ![p].pc = IF req[p].i + 1 = Len(MONTHS) THEN "append" ELSE "sheet",
                        ![p].located = (req[p].i + 1 = Len(MONTHS)),
                        ![p].i = @ + 1,
                        ![p].storeCalls = @ + 1]
  /\ UNCHANGED << files, folders, started, failures, clock, acked, deployed, recon, roster, parent, fnIn, fnOut, dash, login >>

WriteHeader(p) ==
  /\ req[p].pc = "header"
  /\ LET r  == req[p]
         id == r.spreadsheetId
         k  == SheetIndex(files[id], MONTHS[r.i + 1])
         done == r.i + 1 = Len(MONTHS)
     IN /\ files' = [files EXCEPT ![id].sheets[k].rows = UpdateRow1(@, HeaderRow)]
        /\ req' = [req EXCEPT ![p].pc = IF done THEN "append" ELSE "sheet",
                              ![p].located = done,
                              ![p].i = @ + 1,
                              ![p].storeCalls = @ + 1]
  /\ UNCHANGED << folders, started, failures, clock, acked, deployed, recon, roster, parent, fnIn, fnOut, dash, login >>

\* the pc after values.append has returned
AfterAppend(r) ==
  IF r.variant = 2 /\ r.backdated /\ r.body.project = r.firstTask
  THEN "alert" ELSE "done"

\* monthName, the sheet that the entry of body b, received at now, goes to
TargetSheetOfNow(b, now) == MONTHS[CivilFromDays(now \div MinutesPerDay)[2]]

TargetSheet(b, now) == MonthName(b.date)

\* values.append to <monthName>!A:D; the call is refused when the
\* spreadsheet has no sheet of that name
AppendEntry(p) ==
  /\ req[p].pc = "append"
  /\ LET r  == req[p]
         id == r.spreadsheetId
         k  == SheetIndex(files[id], TargetSheet(r.body, r.now))
     IN IF k = 0
        THEN /\ req' = [req EXCEPT ![p].pc = "done", ![p].result = "error",
                                   ![p].storeCalls = @ + 1]
             /\ UNCHANGED << files, acked >>
        ELSE LET r2 == [r EXCEPT !.pc = AfterAppend(r),
                                 !.rowIdx = Len(files[id].sheets[k].rows) + 1,
                                 !.appends = @ + 1,
                                 !.storeCalls = @ + 1,
                                 !.result = IF AfterAppend(r) = "done"
                                            THEN "ok" ELSE @]
             IN /\ files' = [files EXCEPT ![id].sheets[k].rows =
                                AppendRow(@, EntryRow(r.body))]
                /\ req' = [req EXCEPT ![p] = r2]
                /\ IF r2.pc = "done" THEN Acknowledge(r2) ELSE UNCHANGED acked
  /\ UNCHANGED << folders, started, failures, clock, deployed, recon, roster, parent, fnIn, fnOut, dash, login >>

\* a Drive or Sheets call throws: the handler's catch answers 500
StoreCallFailsSwallowed(p) ==
  /\ req[p].pc \in {"folder", "verify", "locate", "create", "sheet", "header", "append"}
  /\ failures < MaxFailures
  /\ failures' = failures + 1
  /\ req' = IF req[p].pc \in {"sheet", "header"}
            THEN [req EXCEPT ![p].pc = "append", ![p].storeCalls = @ + 1]
            ELSE [req EXCEPT ![p].pc = "done", ![p].result = "error",
                             ![p].storeCalls = @ + 1]
  /\ UNCHANGED << files, folders, started, clock, acked, deployed, recon, roster, parent, fnIn, fnOut, dash, login >>

StoreCallFails(p) ==
  /\ req[p].pc \in {"folder", "verify", "locate", "create", "sheet", "header", "append"}
  /\ failures < MaxFailures
  /\ failures' = failures + 1
  /\ req' = [req EXCEPT ![p].pc = "done", ![p].result = "error",
                        ![p].storeCalls = @ + 1]
  /\ UNCHANGED << files, folders, started, clock, acked, deployed, recon, roster, parent, fnIn, fnOut, dash, login >>

\* the response has been sent: the invocation ends
Reply(p) ==
  /\ req[p].pc = "done"
  /\ req' = [req EXCEPT ![p] = Idle]
  /\ UNCHANGED << files, folders, started, failures, clock, acked, deployed, recon, roster, parent, fnIn, fnOut, dash, login >>

SubmitNext ==
  \E p \in Procs :
    \/ Receive(p)
    \/ SendSlackAlert(p)
    \/ CreateFolder(p)
    \/ VerifyFolderAccess(p)
    \/ ListFiles(p)
    \/ CreateFile(p)
    \/ InitSheet(p)
    \/ WriteHeader(p)
    \/ AppendEntry(p)
    \/ StoreCallFails(p)
    \/ Reply(p)

Next == SubmitNext

Spec == Init /\ [][Next]_vars

(***************************************************************************)
(* The timesheet-monitor function                                          *)
(***************************************************************************)
\* the instants at which the monitor is invoked: Saturday 2024-06-29 09:00
\* UTC, Sunday 2024-06-30 23:30 UTC and Monday 2024-07-01 10:00 UTC
ReconNows ==
  { At(<<2024, 6, 29>>, 540), At(<<2024, 6, 30>>, 1410), At(<<2024, 7, 1>>, 600) }

\* today.getDay() === 0 || today.getDay() === 6
IsWeekendSundayOnly(t) == GetDay(t) = 0

IsWeekend(t) == GetDay(t) = 0 \/ GetDay(t) = 6

\* parseFloat(row[3]) || 0; a row read from the store has no cell where the
\* sheet's row ends before column D
HoursOfRow(row) ==
  IF Len(row) < 4 THEN 0
  ELSE LET x == ParseFloat(row[4]) IN IF x.nan THEN 0 ELSE x.v

\* rows.slice(1).filter(row => row[0] === date).map(...)
EntriesAllRows(rows, date) ==
  LET data == IF rows = << >> THEN << >> ELSE Tail(rows)
  IN [j \in 1..Len(data) |->
        [date |-> data[j][1], project |-> data[j][2],
         description |-> data[j][3], hours |-> HoursOfRow(data[j])]]

Entries(rows, date) ==
  LET data  == IF rows = << >> THEN << >> ELSE Tail(rows)
      today == SelectSeq(data, LAMBDA row : Len(row) > 0 /\ row[1] = date)
  IN [j \in 1..Len(today) |->
        [date |-> today[j][1], project |-> today[j][2],
         description |-> today[j][3], hours |-> HoursOfRow(today[j])]]

\* entries.reduce((sum, entry) => sum + entry.hours, 0)
RECURSIVE TotalHours(_)
TotalHours(entries) ==
  IF entries = << >> THEN 0
  ELSE TotalHours(SubSeq(entries, 1, Len(entries) - 1)) + entries[Len(entries)].hours

ClassifyReportsOk(user, entries) ==
  IF entries = << >> THEN << [user |-> user, status |-> "missing", hoursLogged |-> 0] >>
  ELSE IF TotalHours(entries) < FullDay
  THEN << [user |-> user, status |-> "incomplete", hoursLogged |-> TotalHours(entries)] >>
  ELSE << [user |-> user, status |-> "ok", hoursLogged |-> TotalHours(entries)] >>

\* the report of one user, << >> when none is pushed
ClassifyZeroHours(user, entries) ==
  IF TotalHours(entries) < FullDay
  THEN << [user |-> user, status |-> "incomplete", hoursLogged |-> TotalHours(entries)] >>
  ELSE << >>

Classify(user, entries) ==
  IF entries = << >> THEN << [user |-> user, status |-> "missing", hoursLogged |-> 0] >>
  ELSE IF TotalHours(entries) < FullDay
  THEN << [user |-> user, status |-> "incomplete", hoursLogged |-> TotalHours(entries)] >>
  ELSE << >>

\* history of the sweep: for each user handled, the ledger findSpreadsheet
\* gave (0: none) and whether the read of its sheet was answered
LogEntry(user, id, read) == [user |-> user, id |-> id, read |-> read]

\* checkTimesheets up to the roster listing: the weekend check
StartCheck ==
  /\ recon.pc = "idle"
  /\ \E n \in ReconNows :
       recon' = [recon EXCEPT !.now = n,
                              !.dateStr = IsoDate(n),
                              !.pc = IF IsWeekend(n) THEN "done" ELSE "users"]
  /\ UNCHANGED << files, folders, req, started, failures, clock, acked, deployed, roster, parent, fnIn, fnOut, dash, login >>

\* data.nextPage of the answer to listUsers({ page }): 0 is null
NextPage(pages, page) == IF page < Len(pages) THEN page + 1 ELSE 0

\* while (nextPage)
MorePagesNever(nextPage) == FALSE

MorePages(nextPage) == nextPage # 0

\* one listUsers call of getAllUsers; an error of it is thrown on and ends
\* the run
ListUsersPageKeepsListed ==
  /\ recon.pc = "users"
  /\ \E fails \in (IF failures < MaxFailures THEN BOOLEAN ELSE {FALSE}) :
       IF fails
       THEN /\ recon' = [recon EXCEPT !.pc = "find", !.calls = @ + 1]
            /\ failures' = failures + 1
       ELSE /\ recon' =
                 [recon EXCEPT !.users = @ \o roster[recon.page],
                               !.page = NextPage(roster, recon.page),
                               !.calls = @ + 1,
                               !.pc = IF MorePages(NextPage(roster, recon.page))
                                      THEN "users" ELSE "find"]
            /\ UNCHANGED failures
  /\ UNCHANGED << files, folders, req, started, clock, acked, deployed, roster, parent, fnIn, fnOut, dash, login >>

ListUsersPage ==
  /\ recon.pc = "users"
  /\ \E fails \in (IF failures < MaxFailures THEN BOOLEAN ELSE {FALSE}) :
       IF fails
       THEN /\ recon' = [recon EXCEPT !.pc = "failed", !.calls = @ + 1]
            /\ failures' = failures + 1
       ELSE /\ recon' =
                 [recon EXCEPT !.users = @ \o roster[recon.page],
                               !.page = NextPage(roster, recon.page),
                               !.calls = @ + 1,
                               !.pc = IF MorePages(NextPage(roster, recon.page))
                                      THEN "users" ELSE "find"]
            /\ UNCHANGED failures
  /\ UNCHANGED << files, folders, req, started, clock, acked, deployed, roster, parent, fnIn, fnOut, dash, login >>

\* findSpreadsheet for the next user; null (0) when nothing matches or the
\* listing throws; then the missing report
FindOrCreateSpreadsheet ==
  /\ recon.pc = "find"
  /\ recon.k <= Len(recon.users)
  /\ LET user  == recon.users[recon.k]
         found == LedgersByName(user.email)
     IN /\ files' = IF found = {} THEN Append(files, NewSpreadsheet(user.email))
                     ELSE files
        /\ recon' = [recon EXCEPT !.pc = "read", !.calls = @ + 1,
                        !.spreadsheetId = IF found = {} THEN Len(files) + 1
                                          ELSE CHOOSE id \in found : TRUE]
  /\ UNCHANGED << folders, req, started, failures, clock, acked, deployed, roster, parent, fnIn, fnOut, dash, login >>

FindSpreadsheetThrows ==
  /\ recon.pc = "find"
  /\ recon.k <= Len(recon.users)
  /\ LET user  == recon.users[recon.k]
         found == LedgersByName(user.email)
     IN \E fails \in BOOLEAN,
           id \in (IF found = {} THEN {0} ELSE found) :
          /\ failures' = IF fails THEN failures + 1 ELSE failures
          /\ IF fails
             THEN recon' = [recon EXCEPT !.pc = "failed", !.calls = @ + 1,
                                         !.readFailures = @ \cup {recon.k}]
             ELSE IF id = 0
             THEN recon' =
                    [recon EXCEPT
                       !.k = @ + 1,
                       !.calls = @ + 1,
                       !.reports = Append(@, [user |-> user, status |-> "missing",
                                              hoursLogged |-> 0]),
                       !.log = Append(@, LogEntry(user, 0, FALSE))]
             ELSE recon' = [recon EXCEPT !.pc = "read", !.spreadsheetId = id,
                                         !.calls = @ + 1]
  /\ UNCHANGED << files, folders, req, started, clock, acked, deployed, roster, parent, fnIn, fnOut, dash, login >>

FindSpreadsheet ==
  /\ recon.pc = "find"
  /\ recon.k <= Len(recon.users)
  /\ LET user  == recon.users[recon.k]
         found == LedgersByName(user.email)
     IN \E fails \in BOOLEAN,
           id \in (IF found = {} THEN {0} ELSE found) :
          /\ failures' = IF fails THEN failures + 1 ELSE failures
          /\ IF fails \/ id = 0
             THEN recon' =
                    [recon EXCEPT
                       !.k = @ + 1,
                       !.calls = @ + 1,
                       !.readFailures = IF fails THEN @ \cup {recon.k} ELSE @,
                       !.reports = Append(@, [user |-> user, status |-> "missing",
                                              hoursLogged |-> 0]),
                       !.log = Append(@, LogEntry(user, 0, FALSE))]
             ELSE recon' = [recon EXCEPT !.pc = "read", !.spreadsheetId = id,
                                         !.calls = @ + 1]
  /\ UNCHANGED << files, folders, req, started, clock, acked, deployed, roster, parent, fnIn, fnOut, dash, login >>

\* getTimesheetEntries for the user and the classification that follows;
\* a read that throws, also for a sheet that does not exist, gives no entries
GetTimesheetEntriesThrows ==
  /\ recon.pc = "read"
  /\ LET user == recon.users[recon.k]
         file == files[recon.spreadsheetId]
         s    == SheetIndex(file, MonthName(recon.dateStr))
     IN \E fails \in BOOLEAN :
          \E read \in { ~fails /\ s > 0 } :
          \E rows \in { IF read THEN file.sheets[s].rows ELSE << >> } :
          \E entries \in { IF read THEN Entries(rows, recon.dateStr) ELSE << >> } :
          \E rep \in { Classify(user, entries) } :
             /\ failures' = IF fails THEN failures + 1 ELSE failures
             /\ recon' =
                  IF read
                  THEN [recon EXCEPT
                          !.pc = "find",
                          !.k = @ + 1,
                          !.calls = @ + 1,
                          !.reports = @ \o rep,
                          !.log = Append(@, LogEntry(user, recon.spreadsheetId, read))]
                  ELSE [recon EXCEPT
                          !.pc = "failed",
                          !.calls = @ + 1,
                          !.readFailures = @ \cup {recon.k}]
  /\ UNCHANGED << files, folders, req, started, clock, acked, deployed, roster, parent, fnIn, fnOut, dash, login >>

GetTimesheetEntries ==
  /\ recon.pc = "read"
  /\ LET user == recon.users[recon.k]
         file == files[recon.spreadsheetId]
         s    == SheetIndex(file, MonthName(recon.dateStr))
     IN \E fails \in BOOLEAN :
          \E read \in { ~fails /\ s > 0 } :
          \E rows \in { IF read THEN file.sheets[s].rows ELSE << >> } :
          \E entries \in { IF read THEN Entries(rows, recon.dateStr) ELSE << >> } :
          \E rep \in { Classify(user, entries) } :
             /\ failures' = IF fails THEN failures + 1 ELSE failures
             /\ recon' = [recon EXCEPT
                            !.pc = "find",
                            !.k = @ + 1,
                            !.calls = @ + 1,
                            !.readFailures = IF read THEN @ ELSE @ \cup {recon.k},
                            !.reports = @ \o rep,
                            !.log = Append(@, LogEntry(user, recon.spreadsheetId, read))]
  /\ UNCHANGED << files, folders, req, started, clock, acked, deployed, roster, parent, fnIn, fnOut, dash, login >>

\* String(n) of a whole number
RECURSIVE IntText(_)
IntText(n) ==
  IF n < 10 THEN << Digits[n + 1] >>
  ELSE IntText(n \div 10) \o << Digits[(n % 10) + 1] >>

\* `${report.hoursLogged}`: the text of a number of half hours
RECURSIVE NumText(_)
NumText(v) ==
  IF v < 0 THEN << "-" >> \o NumText(0 - v)
  ELSE IntText(v \div 2) \o (IF v % 2 = 1 THEN << ".", "5" >> ELSE << >>)

\* a block of the message without a user in it
FixedBlock(kind) ==
  [kind |-> kind, name |-> "", email |-> "", hours |-> << >>]

\* the section of one report: display_name || 'Unknown', (email) and, for
\* an incomplete one, "- <hoursLogged> hours logged"
ReportBlock(report) ==
  [kind |-> report.status,
   name |-> IF report.user.display_name = "" THEN "Unknown"
            ELSE report.user.display_name,
   email |-> report.user.email,
   hours |-> IF report.status = "incomplete" THEN NumText(report.hoursLogged)
             ELSE << >>]

\* the blocks of sendSlackNotification(reports)
SlackBlocksInReportOrder(reports) ==
  << FixedBlock("header"), FixedBlock("divider") >>
    \o [j \in 1..Len(reports) |-> ReportBlock(reports[j])]

SlackBlocks(reports) ==
  LET missingReports    == SelectSeq(reports, LAMBDA r : r.status = "missing")
      incompleteReports == SelectSeq(reports, LAMBDA r : r.status = "incomplete")
  IN << FixedBlock("header"), FixedBlock("divider") >>
       \o (IF Len(missingReports) > 0
           THEN << FixedBlock("missingTitle") >>
                  \o [j \in 1..Len(missingReports) |-> ReportBlock(missingReports[j])]
           ELSE << >>)
       \o (IF Len(missingReports) > 0 /\ Len(incompleteReports) > 0
           THEN << FixedBlock("divider") >> ELSE << >>)
       \o (IF Len(incompleteReports) > 0
           THEN << FixedBlock("incompleteTitle") >>
                  \o [j \in 1..Len(incompleteReports) |-> ReportBlock(incompleteReports[j])]
           ELSE << >>)

\* the end of the loop: sendSlackNotification when there are reports; it
\* throws when the webhook is not configured, and throws its post's errors
\* on, which fails the run
SendSlackNotificationAlways ==
  /\ recon.pc = "find"
  /\ recon.k > Len(recon.users)
  /\ \E outcome \in {"ok", "nonok", "exception", "nourl"} :
       recon' = [recon EXCEPT
                   !.pc = IF outcome = "ok" THEN "done" ELSE "failed",
                   !.notifyCalls = @ + 1,
                   !.outcome = outcome,
                   !.message = IF outcome = "nourl" THEN @
                               ELSE SlackBlocks(recon.reports),
                   !.posts = IF outcome = "nourl" THEN @ ELSE @ + 1]
  /\ UNCHANGED << files, folders, req, started, failures, clock, acked, deployed, roster, parent, fnIn, fnOut, dash, login >>

SendSlackNotification ==
  /\ recon.pc = "find"
  /\ recon.k > Len(recon.users)
  /\ IF recon.reports = << >>
     THEN recon' = [recon EXCEPT !.pc = "done"]
     ELSE \E outcome \in {"ok", "nonok", "exception", "nourl"} :
            recon' = [recon EXCEPT
                        !.pc = IF outcome = "ok" THEN "done" ELSE "failed",
                        !.notifyCalls = @ + 1,
                        !.outcome = outcome,
                        !.message = IF outcome = "nourl" THEN @
                                    ELSE SlackBlocks(recon.reports),
                        !.posts = IF outcome = "nourl" THEN @ ELSE @ + 1]
  /\ UNCHANGED << files, folders, req, started, failures, clock, acked, deployed, roster, parent, fnIn, fnOut, dash, login >>

ReconNext ==
  \/ StartCheck
  \/ ListUsersPage
  \/ FindSpreadsheet
  \/ GetTimesheetEntries
  \/ SendSlackNotification

(***************************************************************************)
(* The stores that a sweep may find                                        *)
(***************************************************************************)
\* the texts of an hours cell: 3.5, 4.5, 8 and one that is no number
HourCells == { <<"3", ".", "5">>, <<"4", ".", "5">>, <<"8">>, <<"a", "b">> }

\* entries of July 2024, dated the day of the sweep or the day after
JulyRows ==
  { << d, "P1", "T1", h >> : d \in { <<2024, 7, 1>>, <<2024, 7, 2>> }, h \in HourCells }

RECURSIVE SeqsUpTo(_, _)
SeqsUpTo(S, n) ==
  IF n = 0 THEN { << >> }
  ELSE LET shorter == SeqsUpTo(S, n - 1)
       IN shorter \cup { Append(q, x) : q \in { t \in shorter : Len(t) = n - 1 }, x \in S }

\* ann's ledger with the entries rows in July: as provisioning leaves it, or
\* (headed = FALSE) as a provisioning that failed before the header of July
\* was written leaves it, with January to July only
AnnLedger(headed, rows) ==
  [name |-> "ann@sr.io", inFolder |-> TRUE,
   sheets |-> [k \in 1..(IF headed THEN Len(MONTHS) ELSE 7) |->
                 [title |-> MONTHS[k],
                  rows |-> IF k = 7
                           THEN (IF headed THEN << HeaderRow >> ELSE << >>) \o rows
                           ELSE << HeaderRow >>]]]

\* the rosters a sweep may meet: all users on one page, one user a page, and
\* a third page with a user who has no ledger
Rosters ==
  { << RosterPages[1] \o RosterPages[2] >>,
    RosterPages,
    RosterPages \o << << [email |-> "cat@sr.io", display_name |-> "Cat"] >> >> }

\* a spreadsheet named like ann's ledger that is not in the folder
OutsideLedger(rows) == [AnnLedger(TRUE, rows) EXCEPT !.inFolder = FALSE]

ReconStores ==
  { << BobLedger >> } \cup
  { << BobLedger, OutsideLedger(rows) >> : rows \in SeqsUpTo(JulyRows, 1) } \cup
  { << BobLedger, AnnLedger(TRUE, << >>), OutsideLedger(rows) >> :
      rows \in SeqsUpTo(JulyRows, 1) } \cup
  { << BobLedger, AnnLedger(headed, rows) >> :
      headed \in BOOLEAN, rows \in SeqsUpTo(JulyRows, MaxRows) }

ReconInit ==
  /\ files \in ReconStores
  /\ folders = 0
  /\ req = [p \in Procs |-> Idle]
  /\ started = 0
  /\ failures = 0
  /\ clock = 0
  /\ acked = {}
  /\ deployed = 1
  /\ recon = ReconIdle
  /\ roster \in Rosters
  /\ parent = "folder"
  /\ fnIn = NoInput
  /\ fnOut = NoInput
  /\ dash = DashIdle
  /\ login = LoginIdle

SpecRecon == ReconInit /\ [][ReconNext]_vars

\* every await of a run is answered or fails: a run that can take a step
\* takes one
ReconFairInit ==
  /\ ReconInit
  /\ \E rows \in SeqsUpTo(JulyRows, 1) :
       files \in { << BobLedger >>, << BobLedger, AnnLedger(TRUE, rows) >> }

SpecReconFair == ReconFairInit /\ [][ReconNext]_vars /\ WF_vars(ReconNext)

(***************************************************************************)
(* The date comparison of the handler on its own                           *)
(***************************************************************************)
\* the entry dates 2024-06-08 .. 2024-06-12 and 2024-12-30 .. 2025-01-02
WideDates ==
  { CivilFromDays(n) :
      n \in (DaysFromCivil(<<2024, 6, 8>>) .. DaysFromCivil(<<2024, 6, 12>>))
            \cup (DaysFromCivil(<<2024, 12, 30>>) .. DaysFromCivil(<<2025, 1, 2>>)) }

\* every half hour of 2024-06-09 .. 2024-06-11 and of 2024-12-31 .. 2025-01-01
WideNows ==
  { n * MinutesPerDay + 30 * h :
      n \in (DaysFromCivil(<<2024, 6, 9>>) .. DaysFromCivil(<<2024, 6, 11>>))
            \cup (DaysFromCivil(<<2024, 12, 31>>) .. DaysFromCivil(<<2025, 1, 1>>)),
      h \in 0..47 }

BackdatedInit ==
  /\ files = << BobLedger >>
  /\ folders = 0
  /\ req = [p \in Procs |-> Idle]
  /\ started = 0
  /\ failures = 0
  /\ clock = 0
  /\ acked = {}
  /\ deployed = 1
  /\ recon = ReconIdle
  /\ roster = RosterPages
  /\ parent = "folder"
  /\ fnIn \in [f : {"isBackdated"}, date : WideDates, now : WideNows]
  /\ fnOut = NoInput
  /\ dash = DashIdle
  /\ login = LoginIdle

\* the handler's comparison for the date and the instant of fnIn
ApplyIsBackdated ==
  /\ fnIn.f = "isBackdated"
  /\ fnOut = NoInput
  /\ fnOut' = [f |-> "isBackdated", v |-> IsBackdated(fnIn.date, fnIn.now)]
  /\ UNCHANGED << files, folders, req, started, failures, clock, acked, deployed, recon, roster, parent, fnIn, dash, login >>

SpecBackdated == BackdatedInit /\ [][ApplyIsBackdated]_vars

(***************************************************************************)
(* The date comparison followed by the alert of the first variant          *)
(***************************************************************************)
AlertInit ==
  /\ files = << BobLedger >>
  /\ folders = 0
  /\ req = [p \in Procs |-> Idle]
  /\ started = 0
  /\ failures = 0
  /\ clock = 0
  /\ acked = {}
  /\ deployed = 1
  /\ recon = ReconIdle
  /\ roster = RosterPages
  /\ parent = "folder"
  /\ fnIn \in [f : {"alert"}, date : WideDates, now : WideNows,
                userName : {"", "Ann"}]
  /\ fnOut = NoInput
  /\ dash = DashIdle
  /\ login = LoginIdle

\* the handler's comparison and, when it is true, the message that
\* sendSlackAlert builds, in the same minute
ApplyBackdatedAlert ==
  /\ fnIn.f = "alert"
  /\ fnOut = NoInput
  /\ fnOut' = IF IsBackdated(fnIn.date, fnIn.now)
              THEN [f |-> "alert",
                    message |-> AlertMessage([userEmail |-> "ann@sr.io",
                                              userName |-> fnIn.userName,
                                              date |-> fnIn.date], fnIn.now)]
              ELSE [f |-> "noalert"]
  /\ UNCHANGED << files, folders, req, started, failures, clock, acked, deployed, recon, roster, parent, fnIn, dash, login >>

SpecAlert == AlertInit /\ [][ApplyBackdatedAlert]_vars

(***************************************************************************)
(* The aggregation of getTimesheetEntries and checkTimesheets on its own   *)
(***************************************************************************)
\* the hours cells of the rows of a day: numbers, a text that is no number,
\* a number followed by a unit
DayCells == { <<"3", ".", "5">>, <<"8">>, <<"a", "b">>, <<"4", ".", "5", "h">> }

\* rows dated 2024-07-01; values.get leaves out the cells that are empty at
\* the end of a row, so a row without hours has three cells
DayRows ==
  { << <<2024, 7, 1>>, "P1", "T1", h >> : h \in DayCells }
    \cup { << <<2024, 7, 1>>, "P1", "T1" >> }

HoursInit ==
  /\ files = << BobLedger >>
  /\ folders = 0
  /\ req = [p \in Procs |-> Idle]
  /\ started = 0
  /\ failures = 0
  /\ clock = 0
  /\ acked = {}
  /\ deployed = 1
  /\ recon = ReconIdle
  /\ roster = RosterPages
  /\ parent = "folder"
  /\ fnIn \in [f : {"totalHours"}, rows : SeqsUpTo(DayRows, MaxRows)]
  /\ fnOut = NoInput
  /\ dash = DashIdle
  /\ login = LoginIdle

\* getTimesheetEntries of a July sheet with the rows of fnIn below its
\* header, for 2024-07-01, and the reduce of checkTimesheets
ApplyTotalHours ==
  /\ fnIn.f = "totalHours"
  /\ fnOut = NoInput
  /\ LET entries == Entries(<< HeaderRow >> \o fnIn.rows, <<2024, 7, 1>>)
     IN fnOut' = [f |-> "totalHours", n |-> Len(entries), v |-> TotalHours(entries)]
  /\ UNCHANGED << files, folders, req, started, failures, clock, acked, deployed, recon, roster, parent, fnIn, dash, login >>

SpecHours == HoursInit /\ [][ApplyTotalHours]_vars

(***************************************************************************)
(* Requests that do not overlap, and a sweep after them                    *)
(***************************************************************************)
\* the timesheet function when every request arrives after the one before
\* it has been answered
SequentialNext ==
  \E p \in Procs :
    \/ Receive(p) /\ \A q \in Procs : req[q].pc = "idle"
    \/ SendSlackAlert(p)
    \/ CreateFolder(p)
    \/ VerifyFolderAccess(p)
    \/ ListFiles(p)
    \/ CreateFile(p)
    \/ InitSheet(p)
    \/ WriteHeader(p)
    \/ AppendEntry(p)
    \/ StoreCallFails(p)
    \/ Reply(p)

SpecSequential == Init /\ [][SequentialNext]_vars

\* a roster of the one user who sends requests
RequesterRoster == << RosterPages[1] >>

EndToEndInit ==
  /\ files = << BobLedger >>
  /\ folders = 0
  /\ req = [p \in Procs |-> Idle]
  /\ started = 0
  /\ failures = 0
  /\ clock = 0
  /\ acked = {}
  /\ deployed \in Variants
  /\ recon = ReconIdle
  /\ roster = RequesterRoster
  /\ parent = "folder"
  /\ fnIn = NoInput
  /\ fnOut = NoInput
  /\ dash = DashIdle
  /\ login = LoginIdle

\* requests one after another, then one run of the monitor
EndToEndNext ==
  \/ recon.pc = "idle" /\ SequentialNext
  \/ (\A p \in Procs : req[p].pc = "idle") /\ ReconNext

SpecEndToEnd == EndToEndInit /\ [][EndToEndNext]_vars

(***************************************************************************)
(* The Dashboard form (the variant with the delete confirmation)           *)
(***************************************************************************)
\* bounds of the form: projects, tasks of a project, submits, field texts
MaxProjects == 2

MaxTasks == 2

MaxSubmits == 2

MaxFieldId == 5

\* the dates that the date input may hand to handleDateChange
DashDates == { <<2024, 9, 30>>, <<2024, 10, 1>>, <<2024, 10, 2>> }

\* two digits of a month or a day
Pad2(n) == IF n < 10 THEN << "0" >> \o IntText(n) ELSE IntText(n)

\* the text "YYYY-MM-DD" of a date
DateText(d) == IntText(d[1]) \o << "-" >> \o Pad2(d[2]) \o << "-" >> \o Pad2(d[3])

\* the UTF-16 code unit of a character of a date text
CharCode(c) == IF c = "-" THEN 45 ELSE 48 + DigitVal(c)

\* a <= b of two strings
RECURSIVE TextLeq(_, _)
TextLeq(a, b) ==
  IF a = << >> THEN TRUE
  ELSE IF b = << >> THEN FALSE
  ELSE IF Head(a) = Head(b) THEN TextLeq(Tail(a), Tail(b))
  ELSE CharCode(Head(a)) < CharCode(Head(b))

\* array.filter((_, index) => index !== i)
RemoveAt(s, i) ==
  IF i \in 1..Len(s) THEN SubSeq(s, 1, i - 1) \o SubSeq(s, i + 1, Len(s)) ELSE s

\* projects.flatMap(project => project.tasks.map(task => ({...})))
RECURSIVE FormEntries(_, _)
FormEntries(projects, date) ==
  IF projects = << >> THEN << >>
  ELSE [j \in 1..Len(Head(projects).tasks) |->
          [date |-> date,
           project |-> Head(projects).name,
           description |-> Head(projects).tasks[j].description,
           hours |-> Head(projects).tasks[j].hours]]
       \o FormEntries(Tail(projects), date)

\* the form is reachable with the pointer: the confirmation dialog, an
\* overlay over the whole page, is not shown
FormReachable == ~dash.deleteConfirmation.show

addProject ==
  /\ FormReachable
  /\ Len(dash.projects) < MaxProjects
  /\ dash.nextId + 1 <= MaxFieldId
  /\ dash' = [dash EXCEPT !.projects = Append(@, NewProject(dash.nextId)),
                          !.nextId = @ + 2]
  /\ UNCHANGED << files, folders, req, started, failures, clock, acked, deployed, recon, roster, parent, fnIn, fnOut, login >>

addTask(projectIndex) ==
  /\ FormReachable
  /\ projectIndex \in 1..Len(dash.projects)
  /\ Len(dash.projects[projectIndex].tasks) < MaxTasks
  /\ dash.nextId <= MaxFieldId
  /\ dash' = [dash EXCEPT !.projects[projectIndex].tasks = Append(@, NewTask(dash.nextId)),
                          !.nextId = @ + 1]
  /\ UNCHANGED << files, folders, req, started, failures, clock, acked, deployed, recon, roster, parent, fnIn, fnOut, login >>

\* the trash button of a project is rendered when there are several
\* projects, the one of a task when its project has several tasks
confirmDelete(type, projectIndex, taskIndex) ==
  /\ FormReachable
  /\ projectIndex \in 1..Len(dash.projects)
  /\ IF type = "project"
     THEN taskIndex = 0 /\ Len(dash.projects) > 1
     ELSE /\ taskIndex \in 1..Len(dash.projects[projectIndex].tasks)
          /\ Len(dash.projects[projectIndex].tasks) > 1
  /\ dash' = [dash EXCEPT !.deleteConfirmation =
                [type |-> type, projectIndex |-> projectIndex,
                 taskIndex |-> taskIndex, show |-> TRUE]]
  /\ UNCHANGED << files, folders, req, started, failures, clock, acked, deployed, recon, roster, parent, fnIn, fnOut, login >>

handleDeleteUnguarded ==
  /\ dash.deleteConfirmation.show
  /\ LET c == dash.deleteConfirmation
     IN IF c.type = "project"
        THEN dash' = [dash EXCEPT !.projects = RemoveAt(@, c.projectIndex),
                                  !.removed = TRUE,
                                  !.deleteConfirmation.show = FALSE]
        ELSE dash' = [dash EXCEPT !.deleteConfirmation.show = FALSE]
  /\ UNCHANGED << files, folders, req, started, failures, clock, acked, deployed, recon, roster, parent, fnIn, fnOut, login >>

\* newProjects[projectIndex].tasks of a project that is not there throws a
\* TypeError: the handler ends there and the dialog stays
handleDelete ==
  /\ dash.deleteConfirmation.show
  /\ LET c == dash.deleteConfirmation
     IN IF c.type = "project" /\ Len(dash.projects) > 1
        THEN dash' = [dash EXCEPT
                        !.projects = RemoveAt(@, c.projectIndex),
                        !.removed = @ \/ c.projectIndex \in 1..Len(dash.projects),
                        !.deleteConfirmation.show = FALSE]
        ELSE IF c.type = "task" /\ c.taskIndex # 0
        THEN IF c.projectIndex \notin 1..Len(dash.projects)
             THEN dash' = [dash EXCEPT !.threw = TRUE]
             ELSE IF Len(dash.projects[c.projectIndex].tasks) > 1
             THEN dash' = [dash EXCEPT
                             !.projects[c.projectIndex].tasks = RemoveAt(@, c.taskIndex),
                             !.removed = @ \/ c.taskIndex
                                            \in 1..Len(dash.projects[c.projectIndex].tasks),
                             !.deleteConfirmation.show = FALSE]
             ELSE dash' = [dash EXCEPT !.deleteConfirmation.show = FALSE]
        ELSE dash' = [dash EXCEPT !.deleteConfirmation.show = FALSE]
  /\ UNCHANGED << files, folders, req, started, failures, clock, acked, deployed, recon, roster, parent, fnIn, fnOut, login >>

cancelDelete ==
  /\ dash.deleteConfirmation.show
  /\ dash' = [dash EXCEPT !.deleteConfirmation.show = FALSE]
  /\ UNCHANGED << files, folders, req, started, failures, clock, acked, deployed, recon, roster, parent, fnIn, fnOut, login >>

handleDateChangeAny(selectedDate) ==
  /\ FormReachable
  /\ dash' = [dash EXCEPT !.date = selectedDate, !.selected = selectedDate]
  /\ UNCHANGED << files, folders, req, started, failures, clock, acked, deployed, recon, roster, parent, fnIn, fnOut, login >>

\* if (selectedDate <= currentDate) setDate(selectedDate), on the texts
handleDateChange(selectedDate) ==
  /\ FormReachable
  /\ dash' = [dash EXCEPT
                !.date = IF TextLeq(DateText(selectedDate), DateText(IsoDate(dash.now)))
                         THEN selectedDate ELSE @,
                !.selected = selectedDate]
  /\ UNCHANGED << files, folders, req, started, failures, clock, acked, deployed, recon, roster, parent, fnIn, fnOut, login >>

\* the end of handleSubmit after the last entry was accepted
Accepted(d) ==
  [d EXCEPT !.successMessage = "Timesheet entries saved successfully!",
            !.projects = << NewProject(1) >>,
            !.nextId = 3,
            !.date = IsoDate(d.now),
            !.submitting = FALSE,
            !.pc = "idle"]

\* the end of handleSubmit in its catch
Refused(d) ==
  [d EXCEPT !.error = "Failed to save timesheet entry",
            !.submitting = FALSE,
            !.pc = "idle"]

\* handleSubmit up to its first await: the submit button is disabled while
\* submitting; the first entry is posted
handleSubmit ==
  /\ FormReachable
  /\ ~dash.submitting
  /\ dash.submits < MaxSubmits
  /\ IF Len(dash.projects) = 0
     THEN dash' = [dash EXCEPT !.error = "Please add at least one project",
                               !.submits = @ + 1]
     ELSE LET entries == FormEntries(dash.projects, dash.date)
              d == [dash EXCEPT !.submitting = TRUE,
                                !.error = "",
                                !.successMessage = "",
                                !.submits = @ + 1,
                                !.entries = entries,
                                !.formAtSubmit = dash.projects,
                                !.responses = << >>,
                                !.sent = << >>,
                                !.i = 0]
          IN dash' = IF entries = << >> THEN Accepted(d)
                     ELSE [d EXCEPT !.pc = "fetch", !.i = 1,
                                    !.sent = << entries[1] >>]
  /\ UNCHANGED << files, folders, req, started, failures, clock, acked, deployed, recon, roster, parent, fnIn, fnOut, login >>

fetchReturnsGoesOn ==
  /\ dash.pc = "fetch"
  /\ \E outcome \in {"ok", "nonok", "throws"} :
       LET d == [dash EXCEPT !.responses = Append(@, outcome)]
       IN dash' = IF dash.i < Len(dash.entries)
                  THEN [d EXCEPT !.i = @ + 1,
                                 !.sent = Append(@, dash.entries[dash.i + 1])]
                  ELSE Accepted(d)
  /\ UNCHANGED << files, folders, req, started, failures, clock, acked, deployed, recon, roster, parent, fnIn, fnOut, login >>

\* the fetch of entry i is answered ok or not ok, or throws: the loop goes
\* on to the next entry, or handleSubmit ends
fetchReturns ==
  /\ dash.pc = "fetch"
  /\ \E outcome \in {"ok", "nonok", "throws"} :
       LET d == [dash EXCEPT !.responses = Append(@, outcome)]
       IN dash' = IF outcome # "ok" THEN Refused(d)
                  ELSE IF dash.i < Len(dash.entries)
                  THEN [d EXCEPT !.i = @ + 1,
                                 !.sent = Append(@, dash.entries[dash.i + 1])]
                  ELSE Accepted(d)
  /\ UNCHANGED << files, folders, req, started, failures, clock, acked, deployed, recon, roster, parent, fnIn, fnOut, login >>

\* time passes
DashTick ==
  /\ dash.now = DashClock[1]
  /\ dash' = [dash EXCEPT !.now = DashClock[2]]
  /\ UNCHANGED << files, folders, req, started, failures, clock, acked, deployed, recon, roster, parent, fnIn, fnOut, login >>

DashNext ==
  \/ addProject
  \/ \E projectIndex \in 1..MaxProjects : addTask(projectIndex)
  \/ \E type \in {"project", "task"}, projectIndex \in 1..MaxProjects,
        taskIndex \in 0..MaxTasks : confirmDelete(type, projectIndex, taskIndex)
  \/ handleDelete
  \/ cancelDelete
  \/ \E selectedDate \in DashDates : handleDateChange(selectedDate)
  \/ handleSubmit
  \/ fetchReturns
  \/ DashTick

\* the page is mounted in front of the deployed function
DashInit ==
  /\ Init
  /\ deployed = 3
  /\ parent = "folder"

SpecDashboard == DashInit /\ [][DashNext]_vars

(***************************************************************************)
(* The Login form                                                          *)
(***************************************************************************)
\* setCooldown(30)
CooldownSeconds == 30

\* bounds of the form: sign-in requests and calls of handleSubmit
MaxSignIns == 2

MaxCalls == 3

\* the cooldown effect after a render: an interval runs iff cooldown > 0
AfterRender(l) == [l EXCEPT !.timer = l.cooldown > 0]

LoginHandleSubmitNoGuard ==
  /\ login.pc = "idle"
  /\ login.calls < MaxCalls
  /\ login.signIns < MaxSignIns
  /\ login' = [login EXCEPT !.calls = @ + 1, !.loading = TRUE, !.message = "",
                            !.signIns = @ + 1, !.pc = "signIn"]
  /\ UNCHANGED << files, folders, req, started, failures, clock, acked, deployed, recon, roster, parent, fnIn, fnOut, dash >>

\* handleSubmit up to its await: nothing while cooldown > 0
LoginHandleSubmit ==
  /\ login.pc = "idle"
  /\ login.calls < MaxCalls
  /\ login.cooldown = 0 => login.signIns < MaxSignIns
  /\ login' = IF login.cooldown > 0
              THEN [login EXCEPT !.calls = @ + 1]
              ELSE [login EXCEPT !.calls = @ + 1, !.loading = TRUE, !.message = "",
                                 !.signIns = @ + 1, !.pc = "signIn"]
  /\ UNCHANGED << files, folders, req, started, failures, clock, acked, deployed, recon, roster, parent, fnIn, fnOut, dash >>

\* signIn resolves, or rejects with a rate_limit error or with another one
SignInReturns ==
  /\ login.pc = "signIn"
  /\ \E outcome \in {"ok", "rate_limit", "error"} :
       login' = AfterRender(
         [login EXCEPT
            !.message = CASE outcome = "ok" -> "Check your email for the login link!"
                          [] outcome = "rate_limit" ->
                               "Please wait before requesting another login link."
                          [] OTHER -> "Error sending login link. Please try again.",
            !.cooldown = IF outcome = "error" THEN @ ELSE CooldownSeconds,
            !.loading = FALSE,
            !.pc = "idle"])
  /\ UNCHANGED << files, folders, req, started, failures, clock, acked, deployed, recon, roster, parent, fnIn, fnOut, dash >>

\* the interval fires after a second: setCooldown(prev => prev - 1)
LoginTimerFires ==
  /\ login.timer
  /\ login' = AfterRender([login EXCEPT !.cooldown = @ - 1, !.ticks = @ + 1])
  /\ UNCHANGED << files, folders, req, started, failures, clock, acked, deployed, recon, roster, parent, fnIn, fnOut, dash >>

LoginNext ==
  \/ LoginHandleSubmit
  \/ SignInReturns
  \/ LoginTimerFires

\* the page is mounted in front of the deployed function
LoginInit ==
  /\ Init
  /\ deployed = 3
  /\ parent = "folder"

\* a running interval fires, and signIn settles
SpecLogin ==
  /\ LoginInit
  /\ [][LoginNext]_vars
  /\ WF_vars(LoginTimerFires)
  /\ WF_vars(SignInReturns)

(***************************************************************************)
(* Properties                                                              *)
(***************************************************************************)
\* the sheet titles of a spreadsheet, in order
Titles(file) == [k \in 1..Len(file.sheets) |-> file.sheets[k].title]

\* the invocations that are provisioning the spreadsheet id
Provisioning(id) ==
  { p \in Procs : req[p].pc \in {"sheet", "header"} /\ req[p].spreadsheetId = id }

\* C1: in every reachable state the store holds at most one ledger named
\* after each user email, also when invocations for one user overlap.
AtMostOneLedgerPerUser ==
  \A u \in Users : Cardinality(Ledgers(u)) <= 1

\* C2: a submitEntry that is answered 200 has appended exactly one row, and
\* the step that appends puts the row [date, project, description, hours] at
\* the end of the sheet named after the month written in entry.date, in a
\* ledger of the request's user, and changes nothing else in the store:
\* no other sheet of that ledger, no other ledger.
EntryRoutedByItsDate ==
  [][ /\ \A p \in Procs :
           req'[p].pc = "done" /\ req'[p].result = "ok" => req'[p].appends = 1
      /\ \A p \in Procs :
           req'[p].appends > req[p].appends =>
             LET b  == req[p].body
                 id == req[p].spreadsheetId
                 k  == SheetIndex(files[id], MONTHS[b.date[2]])
             IN /\ k > 0
                /\ files[id].name = b.userEmail
                /\ files' = [files EXCEPT ![id].sheets[k].rows =
                               @ \o << << b.date, b.project, b.description, b.hours.s >> >>]
    ]_vars

\* C2, its case: an entry dated in June was acknowledged in July, next to
\* another user's ledger.
EntryOfAnotherMonthAcknowledged ==
  \E p \in Procs :
    /\ req[p].pc = "done" /\ req[p].result = "ok"
    /\ req[p].body.date[2] = 6 /\ IsoDate(req[p].now)[2] = 7
    /\ Ledgers("bob@sr.io") # {}

\* C3: an acknowledged row stays where it was appended, with its content, in
\* every later state.
AckedRowsStay ==
  \A a \in acked :
    LET k == SheetIndex(files[a.id], a.title)
    IN /\ k > 0
       /\ Len(files[a.id].sheets[k].rows) >= a.idx
       /\ files[a.id].sheets[k].rows[a.idx] = a.row

\* C4: a locateOrCreate that starts when exactly one ledger of the user
\* exists creates nothing (no ledger, no folder, no sheet) and, when it
\* returns, returns that ledger.
ExistingLedgerNothingCreated ==
  \A p \in Procs :
    Cardinality(req[p].pre) = 1 =>
      /\ req[p].creates = 0
      /\ req[p].located => req[p].spreadsheetId \in req[p].pre

\* C5: a ledger that locateOrCreate has returned has the sheets January to
\* December and no other, and the sheets of a ledger that no invocation is
\* provisioning do not change.
ReturnedLedgerHasTwelvePartitions ==
  [][ /\ \A p \in Procs :
           req'[p].located => Titles(files'[req'[p].spreadsheetId]) = MONTHS
      /\ \A id \in 1..Len(files) :
           Provisioning(id) = {} => Titles(files'[id]) = Titles(files[id])
    ]_vars

\* what C9 calls a body that must be refused: date, project, description or
\* userEmail missing or empty, hours missing, zero or negative
RefusedByContract(b) ==
  \/ b.date = << >>
  \/ b.project = ""
  \/ b.description = ""
  \/ b.userEmail = ""
  \/ b.hours.t = "undef"
  \/ b.hours.s = << >>
  \/ ~ParseFloat(b.hours.s).nan /\ ParseFloat(b.hours.s).v <= 0

\* C9: a request whose body must be refused ends with the validation error
\* and has made no call to the ledger store and no notification.
InvalidBodyRefused ==
  \A p \in Procs :
    req[p].pc # "idle" /\ RefusedByContract(req[p].body) =>
      /\ req[p].pc = "done"
      /\ req[p].result = "invalid"
      /\ req[p].storeCalls = 0
      /\ req[p].alertCalls = 0

\* C10: whatever the outcome of the back-dated post, the step of
\* sendSlackAlert leaves the store and the acknowledged rows as the
\* successful post does and leaves the request where the successful post
\* leaves it: on its way to the ledger (first variant) or answered 200
\* (second variant).
AlertOutcomeIsIrrelevant ==
  [][ \A p \in Procs :
        req[p].pc = "alert" /\ req'[p].pc # "alert" =>
          /\ files' = files
          /\ folders' = folders
          /\ [req'[p] EXCEPT !.posts = << >>, !.postOutcome = "none"]
               = [req[p] EXCEPT
                    !.pc = IF req[p].variant = 1 THEN "locate" ELSE "done",
                    !.result = IF req[p].variant = 1 THEN @ ELSE "ok",
                    !.alertCalls = @ + 1,
                    !.posts = << >>, !.postOutcome = "none"]
          /\ acked' = IF req[p].variant = 1 THEN acked
                      ELSE acked \cup
                             { [id |-> req[p].spreadsheetId,
                                title |-> MONTHS[req[p].body.date[2]],
                                idx |-> req[p].rowIdx,
                                row |-> << req[p].body.date, req[p].body.project,
                                           req[p].body.description,
                                           req[p].body.hours.s >>] }
    ]_vars

\* C10, its case: a request was answered 200 although its post threw.
AcknowledgedAfterFailedPost ==
  \E p \in Procs :
    /\ req[p].pc = "done" /\ req[p].result = "ok"
    /\ req[p].alertCalls = 1
    /\ req[p].postOutcome = "exception"

\* the hours that a cell of the stores above stands for, in half hours
CellHours(cell) ==
  CASE cell = <<"3", ".", "5">> -> 7
    [] cell = <<"4", ".", "5">> -> 9
    [] cell = <<"8">> -> 16
    [] OTHER -> 0

\* the rows of the sheet of today's month in the ledger id
RowsOfToday(id) ==
  LET k == SheetIndex(files[id], MONTHS[recon.dateStr[2]])
  IN IF k = 0 THEN << >> ELSE files[id].sheets[k].rows

\* the data rows (the rows below row 1, the header row's place) dated today
DataRowsOfToday(rows) == { j \in 2..Len(rows) : rows[j][1] = recon.dateStr }

RECURSIVE SumOfCells(_, _)
SumOfCells(rows, J) ==
  IF J = {} THEN 0
  ELSE LET j == CHOOSE x \in J : TRUE
       IN CellHours(rows[j][4]) + SumOfCells(rows, J \ {j})

\* the reports that the sweep holds for the user of log entry j
ReportsOf(j) ==
  { i \in 1..Len(recon.reports) : recon.reports[i].user = recon.log[j].user }

\* C6: for a roster user whose ledger was read, the total is the sum of the
\* hours cells of the data rows of today's month sheet that are dated today
\* (data rows are the rows below row 1, where the header row is): with at
\* least one such row the user is reported incomplete with that total when
\* it is below 8 hours, and is not reported (ok) when it is 8 hours or more.
TotalIsSumOfTodaysRows ==
  \A j \in 1..Len(recon.log) :
    recon.log[j].id # 0 /\ recon.log[j].read =>
      LET rows  == RowsOfToday(recon.log[j].id)
          J     == DataRowsOfToday(rows)
          total == SumOfCells(rows, J)
      IN /\ J # {} /\ total < 16 =>
              /\ Cardinality(ReportsOf(j)) = 1
              /\ \A i \in ReportsOf(j) :
                   /\ recon.reports[i].status = "incomplete"
                   /\ recon.reports[i].hoursLogged = total
         /\ J # {} /\ total >= 16 => ReportsOf(j) = {}

\* C6, its case: two rows dated today that sum to 7 hours beside a row of
\* another day, reported incomplete.
IncompleteBesideOtherDay ==
  \E j \in 1..Len(recon.log) :
    /\ recon.log[j].id # 0 /\ recon.log[j].read
    /\ LET rows == RowsOfToday(recon.log[j].id)
           J    == DataRowsOfToday(rows)
       IN /\ Cardinality(J) = 2
          /\ J # 2..Len(rows)
          /\ SumOfCells(rows, J) = 14
          /\ \E i \in ReportsOf(j) : recon.reports[i].status = "incomplete"

\* C7: a roster user for whom findSpreadsheet gave no ledger, or whose ledger
\* has no row dated today in the sheet of today's month, is reported missing,
\* once, and neither incomplete nor ok.
NoRowTodayIsMissing ==
  \A j \in 1..Len(recon.log) :
    LET rows == IF recon.log[j].id = 0 THEN << >> ELSE RowsOfToday(recon.log[j].id)
    IN (\A x \in 1..Len(rows) : rows[x][1] # recon.dateStr) =>
         /\ Cardinality(ReportsOf(j)) = 1
         /\ \A i \in ReportsOf(j) : recon.reports[i].status = "missing"

\* C7, its case: a ledger read with entries of another day only.
MissingWithRowsOfOtherDay ==
  \E j \in 1..Len(recon.log) :
    /\ recon.log[j].id # 0 /\ recon.log[j].read
    /\ Len(RowsOfToday(recon.log[j].id)) >= 2
    /\ \A x \in 1..Len(RowsOfToday(recon.log[j].id)) :
         RowsOfToday(recon.log[j].id)[x][1] # recon.dateStr
    /\ \E i \in ReportsOf(j) : recon.reports[i].status = "missing"

\* a civil date is before another
CivilBefore(a, b) ==
  \/ a[1] < b[1]
  \/ a[1] = b[1] /\ a[2] < b[2]
  \/ a[1] = b[1] /\ a[2] = b[2] /\ a[3] < b[3]

\* the calendar date at UTC+5:30 of an instant
IstCivilDate(t) == CivilFromDays((t + 330) \div 1440)

\* C8: isBackdated is true exactly when the calendar day of entry.date is
\* before the calendar day, at UTC+5:30, of the submission instant, at every
\* time of the day.
BackdatedIffEarlierIstDay ==
  fnOut.f = "isBackdated" =>
    (fnOut.v <=> CivilBefore(fnIn.date, IstCivilDate(fnIn.now)))

\* C8, its case: a submission after 18:30 UTC of an entry dated that UTC day,
\* which is the day before in IST.
BackdatedAcrossUtcEvening ==
  /\ fnOut.f = "isBackdated"
  /\ fnOut.v
  /\ IsoDate(fnIn.now) = fnIn.date

\* C11: a store call of the provisioning (create, rename, add sheet, header
\* write) that fails ends the request with an error and without an appended
\* row, and leaves the store as it was: the ledger and the sheets made so far
\* stay; no step of any request removes a ledger or a sheet.
ProvisioningFailureSurfaced ==
  [][ /\ \A p \in Procs :
           /\ req[p].pc \in {"create", "sheet", "header"}
           /\ failures' > failures
           /\ req'[p] # req[p]
           => /\ req'[p].pc = "done"
              /\ req'[p].result = "error"
              /\ req'[p].appends = 0
              /\ files' = files
              /\ folders' = folders
      /\ Len(files') >= Len(files)
      /\ folders' >= folders
      /\ \A id \in 1..Len(files) :
           /\ files'[id].name = files[id].name
           /\ Len(files'[id].sheets) >= Len(files[id].sheets)
    ]_vars

\* C11, its case: a request has failed while provisioning and its ledger is
\* in the store with some of the twelve sheets.
ProvisioningFailedPartway ==
  \E p \in Procs :
    /\ req[p].pc = "done" /\ req[p].result = "error"
    /\ req[p].spreadsheetId # 0 /\ ~req[p].located
    /\ req[p].appends = 0
    /\ Len(files[req[p].spreadsheetId].sheets) \in 2..11

\* the reports of log entry j are those of a run in which no read fails: one
\* missing report without a ledger or without a row dated today below row 1,
\* one incomplete report with the total below 8 hours, none from 8 hours on;
\* a user whose locate or read failed has one missing report
ClassifiedAsIfNoReadFailed ==
  \A j \in 1..Len(recon.log) :
    LET id    == recon.log[j].id
        rows  == IF id = 0 THEN << >> ELSE RowsOfToday(id)
        J     == DataRowsOfToday(rows)
        total == SumOfCells(rows, J)
        R     == ReportsOf(j)
    IN IF j \in recon.readFailures \/ J = {}
       THEN /\ Cardinality(R) = 1
            /\ \A i \in R : recon.reports[i].status = "missing"
       ELSE IF total < 16
       THEN /\ Cardinality(R) = 1
            /\ \A i \in R : /\ recon.reports[i].status = "incomplete"
                            /\ recon.reports[i].hoursLogged = total
       ELSE R = {}

\* C12: a locate or a read of one user's ledger that fails does not fail the
\* run: the sweep has gone on past that user, who is reported missing, the
\* run fails only if the post of the report fails after the sweep, and every
\* other user handled has the reports of a run without failed reads.
ReadFailureIsLocal ==
  /\ ClassifiedAsIfNoReadFailed
  /\ \A j \in recon.readFailures : j <= Len(recon.log)
  /\ recon.readFailures # {} /\ recon.pc = "failed" =>
       /\ recon.notifyCalls > 0
       /\ Len(recon.log) = Len(recon.users)

\* C12, its case: a run is complete in which the read of one user failed and
\* another user was reported incomplete.
ReadFailedRunCompleted ==
  /\ recon.pc = "done"
  /\ recon.readFailures # {}
  /\ \E j \in 1..Len(recon.log) :
       /\ j \notin recon.readFailures
       /\ \E i \in ReportsOf(j) : recon.reports[i].status = "incomplete"

\* C13: a listUsers call that fails, on whatever page, fails the run: no
\* report, no notification, and nothing happens after it.
RosterFailureIsFatal ==
  [][ /\ recon.pc = "users" /\ failures' > failures =>
           /\ recon'.pc = "failed"
           /\ recon'.reports = << >>
           /\ recon'.posts = 0
           /\ recon'.notifyCalls = 0
      /\ recon.pc = "failed" => recon' = recon
    ]_vars

\* C13, its case: the run failed on the second page, after the first page
\* had been read.
RosterFailedAfterFirstPage ==
  /\ recon.pc = "failed"
  /\ recon.notifyCalls = 0
  /\ recon.page = 2
  /\ Len(recon.users) >= 1
  /\ recon.reports = << >>

\* the users of all the pages, in order
RECURSIVE AllPages(_)
AllPages(pages) ==
  IF pages = << >> THEN << >> ELSE Head(pages) \o AllPages(Tail(pages))

\* C14: once getAllUsers has returned, the users are those of all the pages
\* of the roster, each one once, and one listUsers call was made per page.
AllPagesListedOnce ==
  recon.pc \in {"find", "read"} \/ recon.notifyCalls > 0
    \/ (recon.pc = "done" /\ recon.calls > 0) =>
    /\ recon.users = AllPages(roster)
    /\ \A x, y \in 1..Len(recon.users) :
         recon.users[x].email = recon.users[y].email => x = y
    /\ \A n \in 1..Len(roster) : \A x \in 1..Len(roster[n]) :
         \E y \in 1..Len(recon.users) : recon.users[y] = roster[n][x]
    /\ recon.pc = "find" /\ recon.k = 1 => recon.calls = Len(roster)

\* C14, its case: a run over a roster of three pages is complete.
ThreePagesListed ==
  /\ recon.pc = "done"
  /\ Len(roster) = 3
  /\ Len(recon.users) = 3

\* C15: a run on Saturday 2024-06-29 or Sunday 2024-06-30 ends at once with
\* an empty report and has made no call: none to the roster, none to the
\* ledger store, no notification.
WeekendRunDoesNothing ==
  recon.pc # "idle" /\ IsoDate(recon.now) \in { <<2024, 6, 29>>, <<2024, 6, 30>> } =>
    /\ recon.pc = "done"
    /\ recon.reports = << >>
    /\ recon.users = << >>
    /\ recon.calls = 0
    /\ recon.notifyCalls = 0
    /\ recon.posts = 0

\* C15, its case: a run of Saturday is over.
SaturdayRunOver ==
  /\ recon.pc = "done"
  /\ IsoDate(recon.now) = <<2024, 6, 29>>

\* C16: a run that has returned its report has posted once when the report
\* has a user in it and not at all when it is empty, and sendSlackNotification
\* is called only when every user of the roster has been handled.
OnePostPerNonEmptyReport ==
  /\ recon.pc = "done" =>
       IF recon.reports # << >>
       THEN recon.posts = 1 /\ recon.notifyCalls = 1
       ELSE recon.posts = 0 /\ recon.notifyCalls = 0
  /\ recon.notifyCalls > 0 =>
       /\ Len(recon.log) = Len(AllPages(roster))
       /\ \A j \in 1..Len(recon.log) : recon.log[j].user = AllPages(roster)[j]

\* C16, its case: a run over three users has returned a report and posted it.
ReportPostedOnce ==
  /\ recon.pc = "done"
  /\ recon.posts = 1
  /\ Len(recon.log) = 3
  /\ recon.reports # << >>

\* C17: a run whose post of the daily report failed (non-ok answer, network
\* error, webhook not configured) still returns its report.
FailedPostStillReturnsReport ==
  recon.outcome \in {"nonok", "exception", "nourl"} => recon.pc = "done"

\* the blocks of the posted message that stand for a user
UserBlocks ==
  { b \in 1..Len(recon.message) : recon.message[b].kind \in {"missing", "incomplete"} }

\* C18: the posted message has one block for every user of the report and
\* for no one else, under the status of the report, the blocks of the missing
\* users come before those of the incomplete ones, and the block of an
\* incomplete user shows the hoursLogged of the report.
ReportMessageGroupsUsers ==
  recon.message # << >> =>
    /\ \A i \in 1..Len(recon.reports) :
         Cardinality({ b \in UserBlocks :
                         recon.message[b].email = recon.reports[i].user.email }) = 1
    /\ \A b \in UserBlocks :
         \E i \in 1..Len(recon.reports) :
           /\ recon.reports[i].user.email = recon.message[b].email
           /\ recon.reports[i].status = recon.message[b].kind
           /\ recon.message[b].kind = "incomplete" =>
                /\ ~ParseFloat(recon.message[b].hours).nan
                /\ ParseFloat(recon.message[b].hours).v = recon.reports[i].hoursLogged
    /\ \A a, b \in UserBlocks :
         recon.message[a].kind = "missing" /\ recon.message[b].kind = "incomplete"
           => a < b

\* C18, its case: a message was posted for a report in which an incomplete
\* user with 3.5 hours comes before a missing one.
IncompleteBeforeMissingPosted ==
  /\ recon.message # << >>
  /\ \E i, j \in 1..Len(recon.reports) :
       /\ i < j
       /\ recon.reports[i].status = "incomplete"
       /\ recon.reports[i].hoursLogged = 7
       /\ recon.reports[j].status = "missing"

\* C19: no step of a run changes the ledger store: no spreadsheet, sheet or
\* row is created or written, no folder is made.
ReconciliationOnlyReads ==
  [][ files' = files /\ folders' = folders ]_vars

\* C19, its case: a run is complete that reported a user who has no ledger,
\* and the user still has none.
UserWithoutLedgerReported ==
  /\ recon.pc = "done"
  /\ \E j \in 1..Len(recon.log) :
       /\ recon.log[j].id = 0
       /\ j \notin recon.readFailures
       /\ Ledgers(recon.log[j].user.email) = {}

\* what a row adds to the total by C20: the number in its hours cell, and 0
\* when the cell is missing or is not a number
ContractHours(row) == IF Len(row) < 4 THEN 0 ELSE CellHours(row[4])

RECURSIVE SumOfContractHours(_)
SumOfContractHours(rows) ==
  IF rows = << >> THEN 0
  ELSE ContractHours(Head(rows)) + SumOfContractHours(Tail(rows))

\* C20: every row dated today is an entry, and the total is the sum of the
\* numeric hours cells: a row whose hours cell is missing or is not a number
\* adds 0, the other rows add their hours.
NonNumericCellCountsZero ==
  fnOut.f = "totalHours" =>
    /\ fnOut.n = Len(fnIn.rows)
    /\ fnOut.v = SumOfContractHours(fnIn.rows)

\* C21: a request that passed validation while the folder id is not set, or
\* is not the id of a folder, ends with an error and has created nothing in
\* the store: no spreadsheet, no sheet, no folder.
ConfigErrorCreatesNothing ==
  \A p \in Procs :
    parent # "folder" /\ req[p].pc = "done" /\ req[p].result # "invalid" =>
      /\ req[p].result \in {"config", "error"}
      /\ req[p].creates = 0

\* C22: the ledger that the monitor's findSpreadsheet gives for a user is
\* named after the user and lies in the configured folder.
LocatedLedgerInsideFolder ==
  /\ recon.pc = "read" => files[recon.spreadsheetId].inFolder
  /\ \A j \in 1..Len(recon.log) :
       recon.log[j].id # 0 =>
         /\ files[recon.log[j].id].name = recon.log[j].user.email
         /\ files[recon.log[j].id].inFolder

\* C23: when the first request of a user who had no ledger has been answered
\* 200, the folder holds exactly one ledger of the user, and the sheet of the
\* entry's month holds the header row and, below it, the entry's row only.
FirstEntryAloneBelowHeader ==
  \A p \in Procs :
    /\ req[p].pc = "done" /\ req[p].result = "ok"
    /\ req[p].pre = {}
    /\ Cardinality(acked) = 1
    => /\ Cardinality({ id \in 1..Len(files) :
                          files[id].name = req[p].body.userEmail /\ files[id].inFolder }) = 1
       /\ LET f == files[req[p].spreadsheetId]
              k == SheetIndex(f, MONTHS[req[p].body.date[2]])
          IN /\ k > 0
             /\ f.sheets[k].rows =
                  << HeaderRow,
                     << req[p].body.date, req[p].body.project,
                        req[p].body.description, req[p].body.hours.s >> >>

\* C24: a ledger is only ever created by an invocation whose search, made
\* in an earlier step, found no ledger of the user; nothing in between keeps
\* another invocation from doing the same, so two ledgers of one name are
\* reachable (the case below).
LedgerCreatedAfterNotFound ==
  [][ /\ \A p \in Procs :
           req[p].pc = "locate" /\ req'[p].pc = "create" =>
             { id \in 1..Len(files) :
                 files[id].name = req[p].body.userEmail /\ files[id].inFolder } = {}
      /\ Len(files') > Len(files) =>
           \E p \in Procs :
             /\ req[p].pc = "create"
             /\ req'[p].pc = "sheet"
             /\ Len(files') = Len(files) + 1
             /\ files'[Len(files')].name = req[p].body.userEmail
    ]_vars

\* C24, its case: two invocations for one user are provisioning a ledger
\* each, and the folder holds two ledgers of that user's name.
TwoLedgersBeingProvisioned ==
  \E p, q \in Procs :
    /\ p # q
    /\ req[p].pc \in {"sheet", "header"} /\ req[q].pc \in {"sheet", "header"}
    /\ req[p].body.userEmail = req[q].body.userEmail
    /\ req[p].spreadsheetId # req[q].spreadsheetId
    /\ files[req[p].spreadsheetId].name = req[p].body.userEmail
    /\ files[req[q].spreadsheetId].name = req[p].body.userEmail

\* C25: an acknowledged row is in every ledger that a lookup for its user
\* can return, in the sheet of its month.
AckedRowsInLocatedLedger ==
  \A a \in acked :
    \A id \in 1..Len(files) :
      files[id].name = files[a.id].name /\ files[id].inFolder =>
        LET k == SheetIndex(files[id], a.title)
        IN /\ k > 0
           /\ \E x \in 1..Len(files[id].sheets[k].rows) :
                files[id].sheets[k].rows[x] = a.row

\* the acknowledged rows of a user that are dated d
AckedOf(email, d) ==
  { a \in acked : files[a.id].name = email /\ a.row[1] = d }

RECURSIVE SumOfAcked(_)
SumOfAcked(A) ==
  IF A = {} THEN 0
  ELSE LET a == CHOOSE x \in A : TRUE
       IN ParseFloat(a.row[4]).v + SumOfAcked(A \ {a})

\* C26: a user handled by a run without a failed read has the reports that
\* the acknowledged entries dated today call for: missing without such an
\* entry, incomplete with their sum h below 8 hours, none from 8 hours on.
AckedEntriesAreCounted ==
  \A j \in 1..Len(recon.log) :
    j \notin recon.readFailures =>
      LET A == AckedOf(recon.log[j].user.email, recon.dateStr)
          h == SumOfAcked(A)
          R == ReportsOf(j)
      IN IF A = {}
         THEN /\ Cardinality(R) = 1
              /\ \A i \in R : recon.reports[i].status = "missing"
         ELSE IF h < 16
         THEN /\ Cardinality(R) = 1
              /\ \A i \in R : /\ recon.reports[i].status = "incomplete"
                              /\ recon.reports[i].hoursLogged = h
         ELSE R = {}

\* the sheet k of a spreadsheet has the header row as its row 1
Headed(file, k) ==
  /\ file.sheets[k].rows # << >>
  /\ file.sheets[k].rows[1] =
       << <<"D", "a", "t", "e">>, "Project", "Task", <<"H", "o", "u", "r", "s">> >>

\* C27: a ledger under provisioning, before step i + 1 of the loop, has the
\* sheets of the first i months in calendar order (the default sheet alone
\* before the first step), each with its header row; when the header write of
\* month i + 1 is due, that month's sheet exists as the last one and the
\* sheets before it have their header rows.
ProvisioningInCalendarOrder ==
  \A p \in Procs :
    req[p].pc \in {"sheet", "header"} =>
      LET f == files[req[p].spreadsheetId]
          i == req[p].i
          n == IF req[p].pc = "header" THEN i + 1 ELSE i
      IN /\ i \in 0..11
         /\ Titles(f) = IF n = 0 THEN << "Sheet1" >>
                        ELSE [k \in 1..n |-> MONTHS[k]]
         /\ \A k \in 1..i : Headed(f, k)

\* C27, its case: the sheet of December has been added and its header write
\* is due.
DecemberHeaderDue ==
  \E p \in Procs : req[p].pc = "header" /\ req[p].i = 11

\* C28: a request that has called the alert dispatcher has appended its row.
AlertOnlyAfterAppend ==
  \A p \in Procs : req[p].alertCalls > 0 => req[p].appends = 1

\* C29: a request answered 200 has called the alert dispatcher once, with
\* the user's email, the name given (the email without one) and the entry's
\* date, when the entry's date is before the day at UTC+5:30 of the request,
\* and has not called it otherwise.
BackdatedAlertedExactlyOnce ==
  \A p \in Procs :
    req[p].pc = "done" /\ req[p].result = "ok" =>
      IF CivilBefore(req[p].body.date, IstCivilDate(req[p].now))
      THEN /\ req[p].alertCalls = 1
           /\ \A x \in 1..Len(req[p].posts) :
                /\ req[p].posts[x].userEmail = req[p].body.userEmail
                /\ req[p].posts[x].userName =
                     (IF req[p].body.userName = "" THEN req[p].body.userEmail
                      ELSE req[p].body.userName)
                /\ req[p].posts[x].date = req[p].body.date
      ELSE req[p].alertCalls = 0

\* C30: when requests do not overlap, the folder holds at most one ledger
\* for each user, and a request that met a ledger of its user, also one that
\* a failed request left with some of its sheets, works on that ledger.
SequentialAtMostOneLedger ==
  /\ \A u \in {"ann@sr.io", "bob@sr.io"} :
       Cardinality({ id \in 1..Len(files) : files[id].name = u /\ files[id].inFolder }) <= 1
  /\ \A p \in Procs :
       req[p].pre # {} /\ req[p].spreadsheetId # 0 =>
         req[p].spreadsheetId \in req[p].pre

\* C30, its case: after a request failed during provisioning, a later one
\* has located the ledger it left, which has fewer than twelve sheets.
PartialLedgerReused ==
  /\ failures = 1
  /\ \E p \in Procs :
       /\ req[p].pre # {}
       /\ req[p].spreadsheetId \in req[p].pre
       /\ req[p].pc \in {"append", "done"}
       /\ Len(files[req[p].spreadsheetId].sheets) < 12

RECURSIVE SumOfColumn4(_, _)
SumOfColumn4(rows, J) ==
  IF J = {} THEN 0
  ELSE LET j == CHOOSE x \in J : TRUE
       IN ParseFloat(rows[j][4]).v + SumOfColumn4(rows, J \ {j})

StatusOf(j) ==
  LET id    == recon.log[j].id
      rows  == IF id = 0 \/ ~recon.log[j].read THEN << >> ELSE RowsOfToday(id)
      J     == DataRowsOfToday(rows)
  IN IF J = {} THEN "missing"
     ELSE IF SumOfCells(rows, J) < 16 THEN "incomplete"
     ELSE "ok"

\* C32: the report of a completed run on a business day has exactly one
\* record, with the user's status, for every roster user classified missing
\* or incomplete, none for a user classified ok, and none for anyone who is
\* not in the roster.
ReportIsTheShortfalls ==
  recon.pc = "done" /\ GetDay(recon.now) \in 1..5 =>
    LET all == AllPages(roster)
    IN /\ Len(recon.log) = Len(all)
       /\ \A j \in 1..Len(all) : recon.log[j].user = all[j]
       /\ \A i \in 1..Len(recon.reports) :
            \E j \in 1..Len(all) : recon.reports[i].user = all[j]
       /\ \A j \in 1..Len(all) :
            LET R == { i \in 1..Len(recon.reports) : recon.reports[i].user = all[j] }
            IN IF StatusOf(j) = "ok" THEN R = {}
               ELSE /\ Cardinality(R) = 1
                    /\ \A i \in R : recon.reports[i].status = StatusOf(j)
       /\ Len(recon.reports) =
            Cardinality({ j \in 1..Len(all) : StatusOf(j) # "ok" })

\* C32, its case: a completed run over three users of whom one is ok, one
\* incomplete and one missing, with a report of two records.
ReportOfTwoAmongThree ==
  /\ recon.pc = "done"
  /\ Len(recon.log) = 3
  /\ Len(recon.reports) = 2
  /\ \E j \in 1..3 : StatusOf(j) = "ok"
  /\ \E i \in 1..2 : recon.reports[i].status = "incomplete"
  /\ \E i \in 1..2 : recon.reports[i].status = "missing"

\* C33: a run ends, done or failed, and a run on a business day whose roster
\* listing did not fail (page is 0 once the last page is listed) has then
\* classified every roster user, in roster order, however many of the
\* lookups and reads of their ledgers failed.
SweepEndsWithAllClassified ==
  <>( /\ recon.pc \in {"done", "failed"}
      /\ ( /\ GetDay(recon.now) \in 1..5
           /\ ~(recon.pc = "failed" /\ recon.page # 0) ) =>
           /\ Len(recon.log) = Len(AllPages(roster))
           /\ \A j \in 1..Len(recon.log) :
                /\ recon.log[j].user = AllPages(roster)[j]
                /\ StatusOf(j) = "ok" \/ ReportsOf(j) # {} )

\* C33, its case: a run is over in which the lookup or the read failed for
\* two users and all three users are classified.
RunOverAfterTwoFailedReads ==
  /\ recon.pc \in {"done", "failed"}
  /\ Cardinality(recon.readFailures) >= 2
  /\ Len(recon.log) = 3

\* C34: in an alert the 'Submitted for Date' is a day before the 'Submission
\* Date' of the same message, at every time of day of the submission.
AlertDatesOrdered ==
  fnOut.f = "alert" =>
    CivilBefore(fnOut.message.date, fnOut.message.currentDate)

\* the number of tasks of a form
RECURSIVE TaskCount(_)
TaskCount(form) ==
  IF form = << >> THEN 0 ELSE Len(Head(form).tasks) + TaskCount(Tail(form))

\* the k-th task of a form in form order, with the name of its project
RECURSIVE TaskAt(_, _)
TaskAt(form, k) ==
  IF k <= Len(Head(form).tasks)
  THEN [project |-> Head(form).name,
        description |-> Head(form).tasks[k].description,
        hours |-> Head(form).tasks[k].hours]
  ELSE TaskAt(Tail(form), k - Len(Head(form).tasks))

\* C35: handleSubmit posts the entries of the form one request at a time
\* in form order, posts the next one only after the previous one was
\* answered ok, posts nothing after the first answer that is not ok, resets
\* the form only when every entry was accepted, and ends with submitting =
\* false.
SubmitsOneByOneUntilRefused ==
  /\ [](/\ Len(dash.sent) <= TaskCount(dash.formAtSubmit)
        /\ \A k \in 1..Len(dash.sent) :
             /\ dash.sent[k].project = TaskAt(dash.formAtSubmit, k).project
             /\ dash.sent[k].description = TaskAt(dash.formAtSubmit, k).description
             /\ dash.sent[k].hours = TaskAt(dash.formAtSubmit, k).hours
        /\ Len(dash.sent) = Len(dash.responses) + (IF dash.pc = "fetch" THEN 1 ELSE 0)
        /\ \A k \in 1..(Len(dash.sent) - 1) : dash.responses[k] = "ok"
        /\ dash.submitting <=> dash.pc = "fetch")
  /\ [][(dash.pc = "fetch" /\ dash'.pc = "idle") =>
          /\ ~dash'.submitting
          /\ IF /\ Len(dash'.responses) = TaskCount(dash.formAtSubmit)
                /\ \A k \in 1..Len(dash'.responses) : dash'.responses[k] = "ok"
             THEN /\ dash'.projects = << NewProject(1) >>
                  /\ dash'.successMessage # ""
             ELSE /\ dash'.projects = dash.projects
                  /\ dash'.error # ""
                  /\ dash'.successMessage = ""]_vars

\* a submission of three entries has ended at the answer to the second one
SubmissionStoppedAtSecond ==
  /\ dash.pc = "idle"
  /\ ~dash.submitting
  /\ TaskCount(dash.formAtSubmit) = 3
  /\ Len(dash.sent) = 2
  /\ dash.responses = << "ok", "nonok" >>
  /\ dash.projects = dash.formAtSubmit

\* C36: after any sequence of addProject, addTask, confirmDelete,
\* handleDelete, cancelDelete and successful submits the form has at least
\* one project and every project has at least one task.
FormNeverEmpty ==
  /\ Len(dash.projects) >= 1
  /\ \A p \in 1..Len(dash.projects) : Len(dash.projects[p].tasks) >= 1

\* a project and a task were deleted down to one project with one task,
\* and the form was submitted with success
DeletedDownToOneAndSubmitted ==
  /\ dash.removed
  /\ dash.submits = MaxSubmits
  /\ dash.successMessage # ""
  /\ dash.nextId = 3
  /\ ~dash.deleteConfirmation.show
  /\ dash.deleteConfirmation.type = "project"
  /\ dash.deleteConfirmation.projectIndex = 2

\* C37: whenever handleDelete can run, the project index and the task
\* index of deleteConfirmation address a project and a task of the current
\* project list.
DeleteIndexAddressesForm ==
  dash.deleteConfirmation.show =>
    /\ dash.deleteConfirmation.projectIndex \in 1..Len(dash.projects)
    /\ dash.deleteConfirmation.type = "task" =>
         dash.deleteConfirmation.taskIndex
           \in 1..Len(dash.projects[dash.deleteConfirmation.projectIndex].tasks)

\* C38: the date of the form and the date of every posted entry are never
\* after the current date, in UTC and at the fixed offset of the function.
FormDateNotInFuture ==
  /\ ~CivilBefore(IsoDate(dash.now), dash.date)
  /\ ~CivilBefore(IstCivilDate(dash.now), dash.date)
  /\ \A k \in 1..Len(dash.sent) :
       /\ ~CivilBefore(IsoDate(dash.now), dash.sent[k].date)
       /\ ~CivilBefore(IstCivilDate(dash.now), dash.sent[k].date)

\* tomorrow was selected and ignored, in the new month, and an entry of an
\* earlier day was posted
FutureDateIgnored ==
  /\ dash.selected = << 2024, 10, 2 >>
  /\ dash.now = DashClock[2]
  /\ dash.date = << 2024, 9, 30 >>
  /\ Len(dash.sent) > 0
  /\ dash.sent[1].date = << 2024, 9, 30 >>

\* C39: in the Login form cooldown stays within 0..30; while cooldown > 0
\* handleSubmit makes no signIn call; a cooldown started by a sign-in
\* request that succeeded or by a rate_limit error counts down by one per
\* second to 0 and then stops; loading is false again after every
\* handleSubmit.
CooldownCountsDownAndGuards ==
  /\ [](/\ login.cooldown \in 0..CooldownSeconds
        /\ login.timer <=> login.cooldown > 0
        /\ login.loading <=> login.pc = "signIn")
  /\ [][/\ (login'.calls # login.calls /\ login.cooldown > 0) =>
             /\ login'.signIns = login.signIns
             /\ ~login'.loading
        /\ login'.ticks # login.ticks =>
             /\ login.cooldown > 0
             /\ login'.cooldown = login.cooldown - 1
        /\ login'.cooldown > login.cooldown =>
             /\ login.pc = "signIn"
             /\ login.cooldown = 0
             /\ login'.cooldown = CooldownSeconds
             /\ login'.message # "Error sending login link. Please try again."
        /\ (login.pc = "signIn" /\ login'.pc = "idle"
            /\ login'.message # "Error sending login link. Please try again.") =>
             login'.cooldown = CooldownSeconds]_vars
  /\ (login.cooldown = CooldownSeconds) ~> (login.cooldown = 0 /\ ~login.timer)
  /\ login.loading ~> ~login.loading

\* a cooldown started by a rate_limit error has counted down to 0, and
\* handleSubmit was called while it ran
CooldownRanOutAfterRateLimit ==
  /\ login.cooldown = 0
  /\ ~login.timer
  /\ login.ticks = CooldownSeconds
  /\ login.signIns = 1
  /\ login.calls = 2
  /\ login.message = "Please wait before requesting another login link."

=============================================================================
